---- MODULE Spec2Model ----
(***************************************************************************)
(* A model of the IRH v22 numerical kernel: the Quaternion algebra         *)
(* (quaternion.py), the QNCD metric (qncd.py) and the phase stepping of a  *)
(* ResonantNode (cymatics.py).                                             *)
(*                                                                         *)
(* The program computes with Python floats, i.e. IEEE-754 binary64 with    *)
(* round-to-nearest-even.  Several of the properties of interest are       *)
(* decided by rounding (q * q.inverse() against the identity, the wrap of  *)
(* the phase into [0, 2*pi)), so the model computes with binary64 values   *)
(* and rounds every operation as the hardware does.  TLC's integers are    *)
(* 32 bits wide, hence a 53-bit significand is kept as a sequence of       *)
(* 15-bit limbs, least significant first.                                  *)
(*                                                                         *)
(* A finite float is a record [sgn, man, exp] of value                     *)
(*     (-1)^sgn * man * 2^exp                                              *)
(* with man an odd natural of at most 53 bits, or the zero <<0, <<>>, 0>>. *)
(* The form is canonical: two floats are equal as Python values (==) iff   *)
(* their records are equal (-0.0 == 0.0 in Python, so one zero suffices).  *)
(* The exponent is not bounded: the inputs of the model are chosen so that *)
(* no result leaves the normal range of binary64 (no overflow, underflow,  *)
(* infinity or NaN arises).                                                *)
(***************************************************************************)
EXTENDS Integers, Sequences, FiniteSets, TLC

----------------------------------------------------------------------------
(* Naturals of arbitrary size: sequences of limbs, least significant first, *)
(* without a most significant zero limb; <<>> is 0.                         *)

\* TLC evaluates the arguments of an operator and the definitions of a LET
\* only when they are first used.  Eager(v, e) is e, with v evaluated first:
\* it keeps the evaluation of a long computation from nesting.
Eager(v, e) == IF v = v THEN e ELSE e

Pow2Table == <<1, 2, 4, 8, 16, 32, 64, 128, 256, 512, 1024, 2048, 4096, 8192,
               16384, 32768>>
Pow2(n) == Pow2Table[n + 1]
LimbBits == Len(Pow2Table) - 1
Base == Pow2(LimbBits)

Max(m, n) == IF m >= n THEN m ELSE n
Min(m, n) == IF m <= n THEN m ELSE n

\* limb i of a, 0 beyond its length
Limb(a, i) == IF i >= 1 /\ i <= Len(a) THEN a[i] ELSE 0

\* a without its most significant zero limbs
Trim(a) ==
  IF a = <<>> \/ a[Len(a)] # 0 THEN a
  ELSE LET m == CHOOSE i \in 0..Len(a) :
                  (i = 0 \/ a[i] # 0) /\ \A j \in (i + 1)..Len(a) : a[j] = 0
       IN  SubSeq(a, 1, m)

Zeros(n) == [i \in 1..n |-> 0]

\* The natural whose limb i is s[i], for limbs in 0..2*Base-2: the carry into
\* limb i is 1 iff a lower limb overflows and every limb between is Base-1.
Carry(s, i) ==
  /\ i > 1
  /\ \/ s[i - 1] >= Base
     \/ /\ s[i - 1] = Base - 1
        /\ \E j \in 1..(i - 2) :
             s[j] >= Base /\ \A k \in (j + 1)..(i - 2) : s[k] = Base - 1

Normalise(s) ==
  Trim([i \in 1..(Len(s) + 1) |->
          (Limb(s, i) + IF Carry(s, i) THEN 1 ELSE 0) % Base])

BAdd(a, b) ==
  IF b = <<>> THEN a
  ELSE IF a = <<>> THEN b
  ELSE Normalise([i \in 1..Max(Len(a), Len(b)) |-> Limb(a, i) + Limb(b, i)])

\* a - b for a >= b: the borrow into limb i is 1 iff a lower limb is
\* negative and every limb between is 0
Borrow(s, i) ==
  /\ i > 1
  /\ \/ s[i - 1] < 0
     \/ /\ s[i - 1] = 0
        /\ \E j \in 1..(i - 2) : s[j] < 0 /\ \A k \in (j + 1)..(i - 2) : s[k] = 0

BorrowOut(s) ==
  Trim([i \in 1..Len(s) |-> (s[i] - IF Borrow(s, i) THEN 1 ELSE 0) % Base])

BSub(a, b) ==
  IF b = <<>> THEN a ELSE BorrowOut([i \in 1..Len(a) |-> a[i] - Limb(b, i)])

\* -1, 0 or 1 as a < b, a = b, a > b
BCmp(a, b) ==
  IF Len(a) > Len(b) THEN 1
  ELSE IF Len(a) < Len(b) THEN -1
  ELSE IF a = b THEN 0
  ELSE LET i == CHOOSE i \in 1..Len(a) :
                  a[i] # b[i] /\ \A j \in (i + 1)..Len(a) : a[j] = b[j]
       IN  IF a[i] > b[i] THEN 1 ELSE -1

\* a * d for a limb d: the low halves of the limb products plus the high
\* halves one limb up
BMulSmall(a, d) ==
  IF d = 0 \/ a = <<>> THEN <<>>
  ELSE IF d = 1 THEN a
  ELSE Normalise([i \in 1..(Len(a) + 1) |->
                    ((Limb(a, i) * d) % Base) + ((Limb(a, i - 1) * d) \div Base)])

ShiftLimb(a) == IF a = <<>> THEN a ELSE <<0>> \o a

RECURSIVE BMul(_, _)
BMul(a, b) ==
  IF a = <<>> \/ b = <<>> THEN <<>>
  ELSE BAdd(ShiftLimb(BMul(a, Tail(b))), BMulSmall(a, Head(b)))

\* a * 2^n
BShl(a, n) ==
  LET r == n % LimbBits
  IN  IF a = <<>> THEN a
      ELSE IF r = 0 THEN Zeros(n \div LimbBits) \o a
      ELSE Zeros(n \div LimbBits) \o
           Trim([i \in 1..(Len(a) + 1) |->
                   ((Limb(a, i) * Pow2(r)) % Base)
                   + ((Limb(a, i - 1) * Pow2(r)) \div Base)])

\* floor(b / 2^r) for r in 1..LimbBits-1
ShrBits(b, r) ==
  Trim([i \in 1..Len(b) |->
          (b[i] \div Pow2(r)) + ((Limb(b, i + 1) % Pow2(r)) * Pow2(LimbBits - r))])

\* floor(a / 2^n)
BShr(a, n) ==
  IF n \div LimbBits >= Len(a) THEN <<>>
  ELSE IF n % LimbBits = 0 THEN SubSeq(a, (n \div LimbBits) + 1, Len(a))
  ELSE ShrBits(SubSeq(a, (n \div LimbBits) + 1, Len(a)), n % LimbBits)

RECURSIVE BitLenSmall(_)
BitLenSmall(x) == IF x = 0 THEN 0 ELSE 1 + BitLenSmall(x \div 2)

BitLen(a) ==
  IF a = <<>> THEN 0 ELSE LimbBits * (Len(a) - 1) + BitLenSmall(a[Len(a)])

RECURSIVE TZSmall(_)
TZSmall(x) == IF x % 2 = 1 THEN 0 ELSE 1 + TZSmall(x \div 2)

\* the index of the lowest nonzero limb of a > 0
LowLimb(a) == CHOOSE i \in 1..Len(a) : a[i] # 0 /\ \A j \in 1..(i - 1) : a[j] = 0

\* the number of trailing zero bits of a > 0
TrailingZeros(a) ==
  IF a[1] # 0 THEN TZSmall(a[1])
  ELSE LimbBits * (LowLimb(a) - 1) + TZSmall(a[LowLimb(a)])

IsOdd(a) == a # <<>> /\ a[1] % 2 = 1

\* [q, r] from the quotient limbs and the remainder of a division whose
\* operands were scaled by 2^s
DivOut(res, s) == [q |-> Trim(res.q), r |-> BShr(res.r, s)]

\* Division by a limb d: the limbs i..1 of a are brought down onto the
\* remainder rem, the quotient limbs found so far are q.
RECURSIVE DivS(_, _, _, _, _)
DivS(a, d, i, rem, q) ==
  IF i = 0 THEN [q |-> q, r |-> IF rem = 0 THEN <<>> ELSE <<rem>>]
  ELSE LET cur == rem * Base + a[i]
           qs  == <<cur \div d>> \o q
       IN  Eager(qs, DivS(a, d, i - 1, cur % d, qs))

\* Long division by a divisor d whose top limb is >= Base/2.  rem < d holds
\* on entry; the quotient limb is estimated from the two top limbs of the
\* running remainder (never too high) and corrected upwards.
RECURSIVE Correct(_, _, _)
Correct(rem, d, qd) ==
  IF BCmp(rem, d) >= 0 THEN Correct(BSub(rem, d), d, qd + 1)
  ELSE [qd |-> qd, rem |-> rem]

DivStep(rem, d) ==
  LET n   == Len(d)
      top == IF Len(rem) < n THEN 0
             ELSE IF Len(rem) = n THEN rem[n]
             ELSE rem[n + 1] * Base + rem[n]
      est == top \div (d[n] + 1)
  IN  Correct(BSub(rem, BMulSmall(d, est)), d, est)

\* the limbs i..1 of a brought down one by one onto the remainder rem, the
\* quotient limbs found so far in q
RECURSIVE DivL(_, _, _, _, _)
RECURSIVE DivNext(_, _, _, _, _)
DivL(a, d, i, rem, q) ==
  IF i = 0 THEN [q |-> q, r |-> rem]
  ELSE Eager(q, DivNext(a, d, i, q, DivStep(Trim(<<a[i]>> \o rem), d)))

DivNext(a, d, i, q, step) == DivL(a, d, i - 1, step.rem, <<step.qd>> \o q)

\* The top Len(dn)-1 limbs of an are below dn: the division starts with
\* them as the remainder.
DivScaled(an, dn, s) ==
  DivOut(DivL(an, dn, Len(an) - Len(dn) + 1,
              SubSeq(an, Len(an) - Len(dn) + 2, Len(an)), <<>>), s)

\* [q, r]: a = q * d + r, 0 <= r < d, for d > 0
BDivMod(a, d) ==
  IF Len(d) = 1 THEN DivOut(DivS(a, d[1], Len(a), 0, <<>>), 0)
  ELSE IF Len(a) < Len(d) THEN [q |-> <<>>, r |-> a]
  ELSE DivScaled(BShl(a, LimbBits - BitLenSmall(d[Len(d)])),
                 BShl(d, LimbBits - BitLenSmall(d[Len(d)])),
                 LimbBits - BitLenSmall(d[Len(d)]))

\* floor(sqrt(t)) for 0 <= t < 2^30, bit by bit from bit b down
RECURSIVE SqrtSmall(_, _, _)
SqrtSmall(t, r, b) ==
  IF b < 0 THEN r
  ELSE IF (r + Pow2(b)) * (r + Pow2(b)) <= t THEN SqrtSmall(t, r + Pow2(b), b - 1)
  ELSE SqrtSmall(t, r, b - 1)

\* Newton's iteration x <- (x + a \div x) \div 2 from a start x >= floor(sqrt(a))
RECURSIVE Newton(_, _)
RECURSIVE NewtonNext(_, _, _)
Newton(a, x) == NewtonNext(a, x, BShr(BAdd(x, BDivMod(a, x).q), 1))

NewtonNext(a, x, y) == IF BCmp(y, x) >= 0 THEN x ELSE Newton(a, y)

\* the start of the iteration: the root r0 of the top limbs of a, plus one,
\* above k limbs
SqrtStart(r0, k) == Zeros(k) \o (IF r0 = Base THEN <<0, 1>> ELSE <<r0>>)

\* floor(sqrt(a))
BSqrt(a) ==
  IF a = <<>> THEN a
  ELSE IF Len(a) = 1 THEN <<SqrtSmall(a[1], 0, LimbBits - 1)>>
  ELSE IF Len(a) = 2 THEN <<SqrtSmall(a[2] * Base + a[1], 0, LimbBits - 1)>>
  ELSE IF Len(a) % 2 = 0
  THEN Newton(a, SqrtStart(SqrtSmall(a[Len(a)] * Base + a[Len(a) - 1], 0,
                                     LimbBits - 1) + 1, (Len(a) - 2) \div 2))
  ELSE Newton(a, SqrtStart(SqrtSmall(a[Len(a)], 0, LimbBits - 1) + 1,
                           (Len(a) - 1) \div 2))

----------------------------------------------------------------------------
(* Python floats: binary64, every operation rounded to nearest, ties to even *)

\* the width of the significand of a binary64
MantBits == 53

FZero == [sgn |-> 0, man |-> <<>>, exp |-> 0]

\* m * 2^e without the tz trailing zero bits of m
Strip(s, m, e, tz) == [sgn |-> s, man |-> BShr(m, tz), exp |-> e + tz]

\* the float (-1)^s * m * 2^e for a natural m of at most MantBits bits
MkFloat(s, m, e) == IF m = <<>> THEN FZero ELSE Strip(s, m, e, TrailingZeros(m))

\* t holds the MantBits + 1 leading bits of the value: its last bit is the
\* first bit cut off, and sticky tells whether a lower bit is set.  The kept
\* part is rounded up if the part cut off is above half a unit, or is half a
\* unit and the kept part is odd.
RoundUp(s, t, e, sticky) ==
  MkFloat(s, IF IsOdd(t) /\ (sticky \/ IsOdd(BShr(t, 1)))
             THEN BAdd(BShr(t, 1), <<1>>) ELSE BShr(t, 1), e)

\* a is cut by sh >= 1 bits
RoundCut(s, a, e, sticky, sh) ==
  RoundUp(s, BShr(a, sh - 1), e + sh, sticky \/ TrailingZeros(a) < sh - 1)

\* The float nearest to (-1)^s * (a + f) * 2^e, where 0 < f < 1 if sticky and
\* f = 0 otherwise.  With sticky, a has more than MantBits bits.
RoundNat(s, a, e, sticky) ==
  IF BitLen(a) <= MantBits THEN MkFloat(s, a, e)
  ELSE RoundCut(s, a, e, sticky, BitLen(a) - MantBits)

\* the float of an integer n, |n| < Base
FromInt(n) ==
  IF n = 0 THEN FZero
  ELSE IF n < 0 THEN MkFloat(1, <<-n>>, 0) ELSE MkFloat(0, <<n>>, 0)

FNeg(x) == IF x.man = <<>> THEN x ELSE [x EXCEPT !.sgn = 1 - x.sgn]

\* (-1)^sx * a * 2^e + (-1)^sy * b * 2^e
AddAligned(sx, a, sy, b, e) ==
  RoundNat(IF sx = sy \/ BCmp(a, b) >= 0 THEN sx ELSE sy,
           IF sx = sy THEN BAdd(a, b)
           ELSE IF BCmp(a, b) >= 0 THEN BSub(a, b) ELSE BSub(b, a),
           e, FALSE)

\* x + y
FAdd(x, y) ==
  IF x.man = <<>> THEN y
  ELSE IF y.man = <<>> THEN x
  ELSE AddAligned(x.sgn, BShl(x.man, x.exp - Min(x.exp, y.exp)),
                  y.sgn, BShl(y.man, y.exp - Min(x.exp, y.exp)),
                  Min(x.exp, y.exp))

\* x - y
FSub(x, y) == FAdd(x, FNeg(y))

\* x * y
FMul(x, y) ==
  IF x.man = <<>> \/ y.man = <<>> THEN FZero
  ELSE RoundNat((x.sgn + y.sgn) % 2, BMul(x.man, y.man), x.exp + y.exp, FALSE)

\* the quotient dm.q rounded, a nonzero remainder dm.r telling that bits
\* below it were lost
QuotRound(s, dm, e) == RoundNat(s, dm.q, e, dm.r # <<>>)

\* x / y for y # 0: the significand of x is scaled by 2^k so that the
\* quotient of the significands has at least MantBits + 2 bits
DivRound(x, y, k) ==
  QuotRound((x.sgn + y.sgn) % 2, BDivMod(BShl(x.man, k), y.man), x.exp - y.exp - k)

FDiv(x, y) ==
  IF x.man = <<>> THEN FZero
  ELSE DivRound(x, y, MantBits + 2 + BitLen(y.man) - BitLen(x.man))

\* the root r = floor(sqrt(n)) rounded, inexact iff r * r # n
RootRound(n, r, e) == RoundNat(0, r, e, BMul(r, r) # n)

\* sqrt(man * 2^k * 2^(exp - k)) for exp - k even
SqrtShift(x, k) == RootRound(BShl(x.man, k), BSqrt(BShl(x.man, k)), (x.exp - k) \div 2)

\* k0 or k0 - 1, whichever leaves an even exponent
SqrtScaled(x, k0) == SqrtShift(x, IF (x.exp - k0) % 2 = 0 THEN k0 ELSE k0 - 1)

\* sqrt(x) for x >= 0: the significand is scaled to 8 limbs, its top limb
\* nonzero; the root has 4 limbs
FSqrt(x) ==
  IF x.man = <<>> THEN FZero ELSE SqrtScaled(x, 8 * LimbBits - BitLen(x.man))

FNegative(d) == d.man # <<>> /\ d.sgn = 1

\* |x|
FAbs(x) == [x EXCEPT !.sgn = 0]

\* x < y, x <= y, as Python compares floats
FLt(x, y) == FNegative(FSub(x, y))
FLe(x, y) == ~FNegative(FSub(y, x))

\* mod + y if mod is nonzero and negative
ModWrap(mod, y) == IF FNegative(mod) THEN FAdd(mod, y) ELSE mod

\* fmod(x, y), exact and of the sign of x, from the significands aligned at
\* the exponent e; then the wrap
ModAligned(x, y, e) ==
  ModWrap(MkFloat(x.sgn, BDivMod(BShl(x.man, x.exp - e), BShl(y.man, y.exp - e)).r, e),
          y)

\* x % y for y > 0, as CPython's float_rem and numpy's npy_divmod compute it
FMod(x, y) ==
  IF x.man = <<>> THEN FZero ELSE ModAligned(x, y, Min(x.exp, y.exp))

----------------------------------------------------------------------------
(* quaternion.py: class Quaternion.  A Quaternion object is a record of its *)
(* four float fields.  The fields of a dataclass instance are assignable,   *)
(* so a method is modelled by its effect: the state of the objects passed   *)
(* to it when it returns (self, other) and its outcome (ret).               *)

Quaternion(w, x, y, z) == [w |-> w, x |-> x, y |-> y, z |-> z]

\* the outcome of a call: a returned value, or a raised exception
Return(v) == [ok |-> TRUE, val |-> v]
Raise(e) == [ok |-> FALSE, val |-> e]

\* x**2 for a float x
Square(x) == FMul(x, x)

\* __mul__ with the sign of y1*x2 in z slipped: a commutative product on the
\* imaginary units i, j
mul_sign_slip(self, other) ==
  LET w1 == self.w   x1 == self.x   y1 == self.y   z1 == self.z
      w2 == other.w  x2 == other.x  y2 == other.y  z2 == other.z
  IN  [self |-> self, other |-> other,
       ret |-> Return(Quaternion(
         FSub(FSub(FSub(FMul(w1, w2), FMul(x1, x2)), FMul(y1, y2)), FMul(z1, z2)),
         FSub(FAdd(FAdd(FMul(w1, x2), FMul(x1, w2)), FMul(y1, z2)), FMul(z1, y2)),
         FAdd(FAdd(FSub(FMul(w1, y2), FMul(x1, z2)), FMul(y1, w2)), FMul(z1, x2)),
         FAdd(FAdd(FAdd(FMul(w1, z2), FMul(x1, y2)), FMul(y1, x2)), FMul(z1, w2))))]

__mul__(self, other) ==
  LET w1 == self.w   x1 == self.x   y1 == self.y   z1 == self.z
      w2 == other.w  x2 == other.x  y2 == other.y  z2 == other.z
  IN  [self |-> self, other |-> other,
       ret |-> Return(Quaternion(
         FSub(FSub(FSub(FMul(w1, w2), FMul(x1, x2)), FMul(y1, y2)), FMul(z1, z2)),
         FSub(FAdd(FAdd(FMul(w1, x2), FMul(x1, w2)), FMul(y1, z2)), FMul(z1, y2)),
         FAdd(FAdd(FSub(FMul(w1, y2), FMul(x1, z2)), FMul(y1, w2)), FMul(z1, x2)),
         FAdd(FSub(FAdd(FMul(w1, z2), FMul(x1, y2)), FMul(y1, x2)), FMul(z1, w2))))]

__add__(self, other) ==
  [self |-> self, other |-> other,
   ret |-> Return(Quaternion(FAdd(self.w, other.w), FAdd(self.x, other.x),
                             FAdd(self.y, other.y), FAdd(self.z, other.z)))]

__sub__(self, other) ==
  [self |-> self, other |-> other,
   ret |-> Return(Quaternion(FSub(self.w, other.w), FSub(self.x, other.x),
                             FSub(self.y, other.y), FSub(self.z, other.z)))]

\* conjugate negating the fields of self in place
conjugate_in_place(self) ==
  [self |-> Quaternion(self.w, FNeg(self.x), FNeg(self.y), FNeg(self.z)),
   ret |-> Return(Quaternion(self.w, FNeg(self.x), FNeg(self.y), FNeg(self.z)))]

conjugate(self) ==
  [self |-> self,
   ret |-> Return(Quaternion(self.w, FNeg(self.x), FNeg(self.y), FNeg(self.z)))]

norm_sq(self) ==
  [self |-> self,
   ret |-> Return(FAdd(FAdd(FAdd(Square(self.w), Square(self.x)), Square(self.y)),
                       Square(self.z)))]

\* np.sqrt of the outcome a of self.norm_sq()
norm_of(a) == [self |-> a.self, ret |-> Return(FSqrt(a.ret.val))]

norm(self) == norm_of(norm_sq(self))

\* inverse returning the conjugate undivided
inverse_unscaled(b, n_sq) == [self |-> b.self, ret |-> b.ret]

\* the quotient of the outcome b of self.conjugate() by n_sq
inverse_by(b, n_sq) ==
  [self |-> b.self,
   ret |-> Return(Quaternion(FDiv(b.ret.val.w, n_sq), FDiv(b.ret.val.x, n_sq),
                             FDiv(b.ret.val.y, n_sq), FDiv(b.ret.val.z, n_sq)))]

\* inverse testing the real part instead of the squared norm
inverse_of_real_part(a) ==
  IF a.self.w = FZero
  THEN [self |-> a.self, ret |-> Raise("ZeroDivisionError")]
  ELSE [self |-> a.self, ret |-> Return(a.self)]

\* a is the outcome of self.norm_sq()
inverse_of(a) ==
  IF a.ret.val = FZero
  THEN [self |-> a.self, ret |-> Raise("ZeroDivisionError")]
  ELSE inverse_by(conjugate(a.self), a.ret.val)

inverse(self) == inverse_of(norm_sq(self))

\* a is the outcome of self.norm()
normalize_by(a) ==
  IF a.ret.val = FZero
  THEN [self |-> a.self, ret |-> Raise("ZeroDivisionError")]
  ELSE [self |-> a.self,
        ret |-> Return(Quaternion(FDiv(a.self.w, a.ret.val), FDiv(a.self.x, a.ret.val),
                                  FDiv(a.self.y, a.ret.val), FDiv(a.self.z, a.ret.val)))]

normalize(self) == normalize_by(norm(self))

\* np.array([w, x, y, z])
to_numpy(self) ==
  [self |-> self, ret |-> Return(<<self.w, self.x, self.y, self.z>>)]

----------------------------------------------------------------------------
(* qncd.py *)

FOne == FromInt(1)

\* the value left unclipped
clip_none(x, lo, hi) == x

\* np.clip(x, lo, hi)
clip(x, lo, hi) == IF FLt(x, lo) THEN lo ELSE IF FLt(hi, x) THEN hi ELSE x

\* the dot product with its last factor taken from u1
dot_product_slip(u1, u2) ==
  FAdd(FAdd(FAdd(FMul(u1.w, u2.w), FMul(u1.x, u2.x)), FMul(u1.y, u2.y)),
       FMul(u1.z, u1.z))

\* u1.w*u2.w + u1.x*u2.x + u1.y*u2.y + u1.z*u2.z
dot_product(u1, u2) ==
  FAdd(FAdd(FAdd(FMul(u1.w, u2.w), FMul(u1.x, u2.x)), FMul(u1.y, u2.y)),
       FMul(u1.z, u2.z))

\* the distance from a fidelity left unsquared, and the fidelity returned
\* in place of the distance
qncd_unsquared(dot) == clip(FSub(FOne, dot), FZero, FOne)
qncd_fidelity(dot) == clip(Square(dot), FZero, FOne)

\* fidelity = dot_product**2; qncd = 1.0 - fidelity, clipped to [0, 1]
qncd_of(dot) == clip(FSub(FOne, Square(dot)), FZero, FOne)

\* compute_qncd with q2.normalize() outside the try block
qncd_uncaught(n1, n2) ==
  IF ~n2.ret.ok THEN [q1 |-> n1.self, q2 |-> n2.self, ret |-> n2.ret]
  ELSE [q1 |-> n1.self, q2 |-> n2.self,
        ret |-> Return(qncd_of(dot_product(n1.ret.val, n2.ret.val)))]

\* n1, n2 are the outcomes of q1.normalize() and q2.normalize()
qncd_normalized(n1, n2) ==
  IF ~n2.ret.ok THEN [q1 |-> n1.self, q2 |-> n2.self, ret |-> Return(FOne)]
  ELSE [q1 |-> n1.self, q2 |-> n2.self,
        ret |-> Return(qncd_of(dot_product(n1.ret.val, n2.ret.val)))]

\* q2.normalize() is not called when q1.normalize() raises
qncd_first(n1, q2) ==
  IF ~n1.ret.ok THEN [q1 |-> n1.self, q2 |-> q2, ret |-> Return(FOne)]
  ELSE qncd_normalized(n1, normalize(q2))

compute_qncd(q1, q2) == qncd_first(normalize(q1), q2)

----------------------------------------------------------------------------
(* cymatics.py: GInfElement and ResonantNode *)

\* np.pi
Pi == [sgn |-> 0, man |-> <<1443, 21777, 4349, 25>>, exp |-> -48]

\* 2 * np.pi
TwoPi == FMul(FromInt(2), Pi)

GInfElement(su2, phase) == [su2 |-> su2, phase |-> phase]

ResonantNode(id, state, frequency) ==
  [id |-> id, state |-> state, frequency |-> frequency]

\* the default state of a ResonantNode: the identity of SU(2), phase 0.0
DefaultState == GInfElement(Quaternion(FOne, FZero, FZero, FZero), FZero)

\* update_phase, were it to build the node's state anew
update_phase_fresh_state(self, dt) ==
  [self |-> [self EXCEPT !.state =
               GInfElement(DefaultState.su2,
                           FMod(FAdd(self.state.phase, FMul(self.frequency, dt)), TwoPi))],
   ret |-> Return("None")]

\* update_phase, were it to leave out the remainder
update_phase_unwrapped(self, dt) ==
  [self |-> [self EXCEPT !.state.phase = FAdd(self.state.phase, FMul(self.frequency, dt))],
   ret |-> Return("None")]

update_phase(self, dt) ==
  [self |-> [self EXCEPT !.state.phase =
               FMod(FAdd(self.state.phase, FMul(self.frequency, dt)), TwoPi)],
   ret |-> Return("None")]

----------------------------------------------------------------------------
(* verification/transparency.py.  A LogEntry is modelled without its        *)
(* timestamp (datetime.now()), its message by the pieces of the f-string;  *)
(* what log_theoretical_step prints is left out.                            *)

LogEntry(level, message, context) ==
  [level |-> level, message |-> message, context |-> context]

TransparencyEngine(verbosity) == [verbosity |-> verbosity, logs |-> <<>>]

\* log_theoretical_step, were it to drop the record
log_nothing(self, act, manuscript_ref, equation_ref, details) == self

\* {}, the mapping without keys
no_details == [key \in {} |-> "None"]

\* details or {}, the optional argument details being given as a sequence of
\* at most one mapping, <<>> when the call leaves it to its default None
details_or_empty(given) == IF given = <<>> THEN no_details ELSE given[1]

\* log_theoretical_step without the test of the verbosity
log_step_always(self, act, manuscript_ref, equation_ref, details) ==
  [self EXCEPT !.logs =
     Append(@, [level |-> "INFO",
                message |-> <<"Computing ", act, " per ", manuscript_ref, ", ",
                              equation_ref>>,
                context |-> details])]

\* the engine after log_theoretical_step(act, manuscript_ref, equation_ref,
\* details), details being a dict that is not empty
log_theoretical_step(self, act, manuscript_ref, equation_ref, details) ==
  IF self.verbosity > 0
    THEN [self EXCEPT !.logs =
            Append(@, LogEntry("INFO",
                               <<"Computing ", act, " per ", manuscript_ref, ", ",
                                 equation_ref>>,
                               details))]
    ELSE self

\* _engine = TransparencyEngine(), the one get_transparency_engine() returns
_engine == TransparencyEngine(1)

\* a function that builds an engine for each caller: the engine is appended
\* to the objects
get_fresh_engine(objects) ==
  [heap |-> Append(objects, TransparencyEngine(1)), ref |-> Len(objects) + 1]

\* get_transparency_engine(): a reference to the module's _engine, which is
\* the first of the objects; no object is built
get_transparency_engine(objects) == [heap |-> objects, ref |-> 1]

\* a list whose append adds to the elements it held when it was loaded
list_append_to_copy(current, loaded, x) == Append(loaded, x)

\* the elements of a list after logs.append(x), where current are the
\* elements it holds now and loaded those it held when the expression
\* self.logs was evaluated: self.logs is a reference to the list, and append
\* adds to the list in one step
list_append(current, loaded, x) == Append(current, x)

----------------------------------------------------------------------------
(* numpy's reductions of a list of floats, and CymaticResonanceNetwork.     *)

\* the float nan, which np.mean and np.var give for no values; it is never
\* an operand of the arithmetic above
NaN == [sgn |-> 0, man |-> <<>>, exp |-> 1]

\* np.sum of fewer than 16 floats: up to 7 are added one after the other
\* from 0; of 8 or more the first eight are added in pairs and the others
\* then one after the other
np_sum(xs) ==
  LET RECURSIVE from(_, _)
      from(i, acc) == IF i > Len(xs) THEN acc ELSE from(i + 1, FAdd(acc, xs[i]))
  IN IF Len(xs) < 8 THEN from(1, FZero)
     ELSE from(9, FAdd(FAdd(FAdd(xs[1], xs[2]), FAdd(xs[3], xs[4])),
                       FAdd(FAdd(xs[5], xs[6]), FAdd(xs[7], xs[8]))))

\* np.mean: the sum divided by the count
np_mean(xs) == IF xs = <<>> THEN NaN ELSE FDiv(np_sum(xs), FromInt(Len(xs)))

\* np.var: the mean of the squared deviations from the mean
np_var(xs) ==
  IF xs = <<>> THEN NaN
  ELSE np_mean([i \in 1..Len(xs) |-> Square(FSub(xs[i], np_mean(xs)))])

\* np.zeros((n, n))
np_zeros(n) == [i \in 1..n |-> [j \in 1..n |-> FZero]]

\* the constructor, were it to number the nodes from 1
network_ids_from_one(num_nodes, normals) ==
  Return([nodes |-> [i \in 1..num_nodes |->
                      ResonantNode(i, DefaultState, FAdd(FOne, normals[i]))],
          coupling_matrix |-> np_zeros(num_nodes)])

\* CymaticResonanceNetwork(num_nodes), normals being the values that
\* np.random.normal(0, 0.1) hands out, one for each i of range(num_nodes); its
\* transparency is the module's engine.  np.zeros raises for a negative size.
CymaticResonanceNetwork(num_nodes, normals) ==
  IF num_nodes < 0
    THEN Raise("ValueError")
    ELSE Return([nodes |-> [i \in 1..num_nodes |->
                             ResonantNode(i - 1, DefaultState, FAdd(FOne, normals[i]))],
                 coupling_matrix |-> np_zeros(num_nodes)])

\* the outcome of the method of the network self with the engine eng:
\* the network, the engine and what is returned
get_collective_wavefunction(self, eng) ==
  [self |-> self,
   engine |-> log_theoretical_step(eng, "Extract Collective Wavefunction",
                "IRH v22.2", "Axiom 1.1",
                [num_nodes |-> Len(self.nodes),
                 average_norm |->
                   np_mean([i \in 1..Len(self.nodes) |->
                              norm(self.nodes[i].state.su2).ret.val])]),
   ret |-> Return([i \in 1..Len(self.nodes) |-> self.nodes[i].state])]

\* is_stable = variance < 0.5, a comparison with nan being False
check_spectral_stability(self, eng) ==
  LET variance == np_var([i \in 1..Len(self.nodes) |-> self.nodes[i].frequency])
      is_stable == variance # NaN /\ FLt(variance, FDiv(FOne, FromInt(2)))
  IN [self |-> self,
      engine |-> log_theoretical_step(eng, "Spectral Stability Check",
                   "IRH v22.2", "Theorem 1.1",
                   [frequency_variance |-> variance, is_stable |-> is_stable]),
      ret |-> Return(is_stable)]

----------------------------------------------------------------------------
(* core/v22/action.py.  A matrix is the list of its rows.  The outcome of a *)
(* method is the engine after it and what it returns or raises.             *)

\* SymplecticAction(lambda_coupling, gamma_coupling); its transparency is the
\* module's engine
SymplecticAction(lambda_coupling, gamma_coupling) ==
  [lambda_coupling |-> lambda_coupling, gamma_coupling |-> gamma_coupling]

\* SymplecticAction(): the defaults are 52.638 and 105.276
DefaultAction ==
  SymplecticAction([sgn |-> 0, man |-> <<27787, 30670, 18087, 210>>, exp |-> -47],
                   [sgn |-> 0, man |-> <<27787, 30670, 18087, 210>>, exp |-> -46])

\* the Laplacian term, were phi_i not conjugated
kinetic_coupling_unconjugated(phi_i, phi_j, l_val) ==
  FMul(l_val, __mul__(phi_i, phi_j).ret.val.w)

\* l_val * prod.w for prod = phi_i.conjugate() * phi_j
kinetic_coupling(phi_i, phi_j, l_val) ==
  FMul(l_val, __mul__(conjugate(phi_i).ret.val, phi_j).ret.val.w)

RECURSIVE total_kinetic_from(_, _, _, _, _)
\* total_kinetic at the end of the loops, from the total before the step j of
\* the row i: the step 0 adds the mass term m_sq * norm_sq with m_sq = 1.0, a
\* step j > 0 the Laplacian term of the column j unless the entry is 0
total_kinetic_from(field, laplacian_matrix, i, j, total) ==
  IF i > Len(field) THEN total
  ELSE IF j > Len(field)
    THEN total_kinetic_from(field, laplacian_matrix, i + 1, 0, total)
  ELSE total_kinetic_from(field, laplacian_matrix, i, j + 1,
         IF j = 0
           THEN FAdd(total, FMul(FOne, norm_sq(field[i].su2).ret.val))
         ELSE IF laplacian_matrix[i][j] # FZero
           THEN FAdd(total, kinetic_coupling(field[i].su2, field[j].su2,
                                             laplacian_matrix[i][j]))
         ELSE total)

\* compute_kinetic_term, were it to return without a record
kinetic_outcome_silent(eng, total_kinetic) ==
  [engine |-> eng, ret |-> Return(total_kinetic)]

\* the log and the return of compute_kinetic_term
kinetic_outcome(eng, total_kinetic) ==
  [engine |-> log_theoretical_step(eng, "Compute Kinetic Action", "IRH v22.2",
                                   "Sec. 2.2", [S_kin |-> total_kinetic]),
   ret |-> Return(total_kinetic)]

\* laplacian_matrix is an array of at least len(field) rows and columns
compute_kinetic_term(self, eng, field, laplacian_matrix) ==
  kinetic_outcome(eng, total_kinetic_from(field, laplacian_matrix, 1, 0, FZero))

\* phi_sq_sum, were norm_sq added unsquared
phi_sq_sum_unsquared(field) ==
  LET RECURSIVE from(_, _)
      from(i, acc) ==
        IF i > Len(field) THEN acc
        ELSE from(i + 1, FAdd(acc, norm_sq(field[i].su2).ret.val))
  IN from(1, FZero)

\* phi_sq_sum after the loop over the field
phi_sq_sum(field) ==
  LET RECURSIVE from(_, _)
      from(i, acc) ==
        IF i > Len(field) THEN acc
        ELSE from(i + 1, FAdd(acc, Square(norm_sq(field[i].su2).ret.val)))
  IN from(1, FZero)

\* the log and the return of compute_interaction_term
interaction_outcome(self, eng, s_int) ==
  [engine |-> log_theoretical_step(eng, "Compute Interaction Action", "IRH v22.2",
                                   "Sec. 2.2",
                                   [S_int |-> s_int, coupling |-> self.lambda_coupling]),
   ret |-> Return(s_int)]

\* self.compute_interaction_term(*positional): the signature is (self, field,
\* adjacency_matrix), neither with a default, so that Python raises TypeError
\* for any other number of arguments before the body runs
compute_interaction_term(self, eng, positional) ==
  IF Len(positional) # 2
    THEN [engine |-> eng, ret |-> Raise("TypeError")]
    ELSE interaction_outcome(self, eng,
                             FMul(self.lambda_coupling, phi_sq_sum(positional[1])))

\* np.exp of the floats the runs below pass to it, correctly rounded
ExpTable ==
  {[arg |-> [sgn |-> 1, man |-> <<12845, 24379, 24223, 19>>, exp |-> -40],
    val |-> [sgn |-> 0, man |-> <<19543, 1618, 26931, 209>>, exp |-> -964]],
   [arg |-> [sgn |-> 1, man |-> <<9175, 31457, 19496, 131>>, exp |-> -43],
    val |-> [sgn |-> 0, man |-> <<9221, 17426, 7576, 193>>, exp |-> -812]],
   [arg |-> [sgn |-> 1, man |-> <<27787, 30670, 18087, 210>>, exp |-> -44],
    val |-> [sgn |-> 0, man |-> <<10435, 30336, 31207, 177>>, exp |-> -660]],
   [arg |-> [sgn |-> 1, man |-> <<13895, 31719, 9043, 105>>, exp |-> -44],
    val |-> [sgn |-> 0, man |-> <<29119, 19181, 30261, 150>>, exp |-> -356]],
   [arg |-> [sgn |-> 1, man |-> <<3>>, exp |-> 1],
    val |-> [sgn |-> 0, man |-> <<27243, 28947, 7331, 81>>, exp |-> -60]],
   [arg |-> [sgn |-> 1, man |-> <<5>>, exp |-> 0],
    val |-> [sgn |-> 0, man |-> <<10683, 24589, 12927, 110>>, exp |-> -59]],
   [arg |-> [sgn |-> 1, man |-> <<1>>, exp |-> 2],
    val |-> [sgn |-> 0, man |-> <<20285, 23568, 16725, 37>>, exp |-> -56]],
   [arg |-> [sgn |-> 1, man |-> <<3>>, exp |-> 0],
    val |-> [sgn |-> 0, man |-> <<12463, 6557, 30403, 203>>, exp |-> -57]],
   [arg |-> [sgn |-> 1, man |-> <<5>>, exp |-> -1],
    val |-> [sgn |-> 0, man |-> <<29733, 297, 3607, 168>>, exp |-> -56]],
   [arg |-> [sgn |-> 1, man |-> <<1, 0, 0, 64>>, exp |-> -50],
    val |-> [sgn |-> 0, man |-> <<455, 18303, 19114, 138>>, exp |-> -55]],
   [arg |-> [sgn |-> 1, man |-> <<1>>, exp |-> 1],
    val |-> [sgn |-> 0, man |-> <<24691, 20959, 21162, 34>>, exp |-> -53]],
   [arg |-> [sgn |-> 1, man |-> <<1, 0, 0, 64>>, exp |-> -51],
    val |-> [sgn |-> 0, man |-> <<28469, 27737, 11608, 188>>, exp |-> -54]],
   [arg |-> [sgn |-> 1, man |-> <<12845, 24379, 24223, 19>>, exp |-> -91],
    val |-> [sgn |-> 0, man |-> <<30241, 32767, 32767, 255>>, exp |-> -53]],
   [arg |-> [sgn |-> 1, man |-> <<3>>, exp |-> -50],
    val |-> [sgn |-> 0, man |-> <<32765, 32767, 32767, 31>>, exp |-> -50]],
   [arg |-> [sgn |-> 1, man |-> <<3>>, exp |-> -51],
    val |-> [sgn |-> 0, man |-> <<32765, 32767, 32767, 63>>, exp |-> -51]],
   [arg |-> [sgn |-> 1, man |-> <<22733, 18797, 27377, 70>>, exp |-> -115],
    val |-> [sgn |-> 0, man |-> <<1>>, exp |-> 0]],
   [arg |-> [sgn |-> 1, man |-> <<13483, 10203, 969, 59>>, exp |-> -115],
    val |-> [sgn |-> 0, man |-> <<1>>, exp |-> 0]],
   [arg |-> [sgn |-> 1, man |-> <<16931, 6436, 29316, 188>>, exp |-> -117],
    val |-> [sgn |-> 0, man |-> <<1>>, exp |-> 0]],
   [arg |-> [sgn |-> 1, man |-> <<8467, 3218, 14658, 94>>, exp |-> -117],
    val |-> [sgn |-> 0, man |-> <<1>>, exp |-> 0]],
   [arg |-> [sgn |-> 1, man |-> <<22733, 18797, 27377, 70>>, exp |-> -166],
    val |-> [sgn |-> 0, man |-> <<1>>, exp |-> 0]],
   [arg |-> [sgn |-> 0, man |-> <<3>>, exp |-> -50],
    val |-> [sgn |-> 0, man |-> <<3, 0, 0, 32>>, exp |-> -50]],
   [arg |-> [sgn |-> 0, man |-> <<1, 0, 0, 64>>, exp |-> -50],
    val |-> [sgn |-> 0, man |-> <<23989, 29097, 14738, 236>>, exp |-> -50]],
   [arg |-> [sgn |-> 0, man |-> <<1>>, exp |-> 2],
    val |-> [sgn |-> 0, man |-> <<26443, 2953, 9800, 27>>, exp |-> -44]],
   [arg |-> [sgn |-> 0, man |-> <<5>>, exp |-> 0],
    val |-> [sgn |-> 0, man |-> <<13199, 13024, 13538, 148>>, exp |-> -45]],
   [arg |-> [sgn |-> 0, man |-> <<3>>, exp |-> 1],
    val |-> [sgn |-> 0, man |-> <<16527, 11553, 23409, 201>>, exp |-> -44]]}

\* np.exp(x) for a float x
np_exp(x) == IF x.man = <<>> THEN FOne ELSE (CHOOSE e \in ExpTable : e.arg = x).val

\* the cosine and the sine of the floats the runs below take them of,
\* correctly rounded
CosSinTable ==
  {[arg |-> [sgn |-> 1, man |-> <<1443, 21777, 4349, 25>>, exp |-> -48],
    cos |-> [sgn |-> 1, man |-> <<1>>, exp |-> 0],
    sin |-> [sgn |-> 1, man |-> <<23559, 26152, 6296, 141>>, exp |-> -105]],
   [arg |-> [sgn |-> 1, man |-> <<1443, 21777, 4349, 25>>, exp |-> -49],
    cos |-> [sgn |-> 0, man |-> <<23559, 26152, 6296, 141>>, exp |-> -106],
    sin |-> [sgn |-> 1, man |-> <<1>>, exp |-> 0]],
   [arg |-> [sgn |-> 0, man |-> <<19661, 6553, 13107, 102>>, exp |-> -55],
    cos |-> [sgn |-> 0, man |-> <<6081, 29520, 23627, 254>>, exp |-> -53],
    sin |-> [sgn |-> 0, man |-> <<29387, 26053, 3758, 51>>, exp |-> -54]],
   [arg |-> [sgn |-> 0, man |-> <<1443, 21777, 4349, 25>>, exp |-> -49],
    cos |-> [sgn |-> 0, man |-> <<23559, 26152, 6296, 141>>, exp |-> -106],
    sin |-> [sgn |-> 0, man |-> <<1>>, exp |-> 0]],
   [arg |-> [sgn |-> 0, man |-> <<1443, 21777, 4349, 25>>, exp |-> -48],
    cos |-> [sgn |-> 1, man |-> <<1>>, exp |-> 0],
    sin |-> [sgn |-> 0, man |-> <<23559, 26152, 6296, 141>>, exp |-> -105]],
   [arg |-> [sgn |-> 0, man |-> <<4329, 32563, 13048, 75>>, exp |-> -49],
    cos |-> [sgn |-> 1, man |-> <<17669, 19614, 29298, 105>>, exp |-> -104],
    sin |-> [sgn |-> 1, man |-> <<1>>, exp |-> 0]],
   [arg |-> [sgn |-> 0, man |-> <<1443, 21777, 4349, 25>>, exp |-> -47],
    cos |-> [sgn |-> 0, man |-> <<1>>, exp |-> 0],
    sin |-> [sgn |-> 1, man |-> <<23559, 26152, 6296, 141>>, exp |-> -104]]}

\* a complex number
Complex(re, im) == [re |-> re, im |-> im]

\* np.exp(1j * t) for a float t: cos(t) + sin(t) j
exp_1j(t) ==
  IF t.man = <<>> THEN Complex(FOne, FZero)
  ELSE Complex((CHOOSE e \in CosSinTable : e.arg = t).cos,
               (CHOOSE e \in CosSinTable : e.arg = t).sin)

\* sqrt(n * 2^e) for a natural n > 0 and an even e, n scaled by 4^k
abs_root(n, e, k) ==
  RootRound(BShl(n, 2 * k), BSqrt(BShl(n, 2 * k)), (e \div 2) - k)

\* abs(z) of a complex z: sqrt(re^2 + im^2) correctly rounded, from the exact
\* sum n * 2^e of the two squares
np_abs(z) ==
  LET e == IF z.re.man = <<>> THEN 2 * z.im.exp
           ELSE IF z.im.man = <<>> \/ z.re.exp < z.im.exp THEN 2 * z.re.exp
           ELSE 2 * z.im.exp
      sq(x) == IF x.man = <<>> THEN <<>> ELSE BShl(BMul(x.man, x.man), 2 * x.exp - e)
      n == BAdd(sq(z.re), sq(z.im))
  IN IF n = <<>> THEN FZero
     ELSE abs_root(n, e, IF BitLen(n) >= 2 * MantBits + 4 THEN 0
                         ELSE MantBits + 2 - (BitLen(n) \div 2))

\* the product, were the phase factor divided by the weight
kernel_weight_divided(phase_factor, weight_factor) ==
  Complex(FDiv(phase_factor.re, weight_factor), FDiv(phase_factor.im, weight_factor))

\* the product, were the phase factor left out
kernel_weight_only(phase_factor, weight_factor) == Complex(weight_factor, FZero)

\* phase_factor * weight_factor, a complex times a float
kernel_product(phase_factor, weight_factor) ==
  Complex(FMul(phase_factor.re, weight_factor), FMul(phase_factor.im, weight_factor))

\* evaluate_kernel, were it to record the evaluation in the log
kernel_logged(self, eng, g1, g2, g3, g4) ==
  [engine |-> log_theoretical_step(eng, "Evaluate Kernel", "IRH v22.2",
                                   "Sec. 2.2, Kernel", [gamma |-> self.gamma_coupling]),
   ret |-> Return(Complex(FOne, FZero))]

RECURSIVE qncd_sum_from(_, _, _, _)
\* qncd_sum at the end of the loops over the pairs i < j of gs, from the sum
\* before the pair (i, j); the indices run from 1
qncd_sum_from(gs, i, j, qncd_sum) ==
  IF i > Len(gs) THEN qncd_sum
  ELSE IF j > Len(gs) THEN qncd_sum_from(gs, i + 1, i + 2, qncd_sum)
  ELSE qncd_sum_from(gs, i, j + 1,
                     FAdd(qncd_sum, compute_qncd(gs[i].su2, gs[j].su2).ret.val))

\* evaluate_kernel(g1, g2, g3, g4): total_phase = g1.phase + g2.phase +
\* g3.phase - g4.phase, the distances are added in the order of the pairs
\* (1,2), (1,3), (1,4), (2,3), (2,4), (3,4); nothing is logged
evaluate_kernel(self, eng, g1, g2, g3, g4) ==
  [engine |-> eng,
   ret |-> Return(kernel_product(
             exp_1j(FSub(FAdd(FAdd(g1.phase, g2.phase), g3.phase), g4.phase)),
             np_exp(FMul(FNeg(self.gamma_coupling),
                         qncd_sum_from(<<g1, g2, g3, g4>>, 1, 2, FZero)))))]

\* compute_total_action, were it to leave out the interaction term
total_action_kinetic_only(self, eng, field, laplacian) ==
  compute_kinetic_term(self, eng, field, laplacian)

\* the sum of the two terms, the engine being the one after the second
total_outcome(s_kin, int) ==
  [engine |-> int.engine, ret |-> Return(FAdd(s_kin, int.ret.val))]

\* compute_total_action once the kinetic term has the outcome kin: the
\* interaction term with adj = np.zeros_like(laplacian), then the sum
total_action_after(self, kin, field, laplacian) ==
  total_outcome(kin.ret.val,
                compute_interaction_term(self, kin.engine,
                  <<field, [i \in 1..Len(laplacian) |->
                             [j \in 1..Len(laplacian[i]) |-> FZero]]>>))

\* the kinetic term, then the interaction term, then their sum
compute_total_action(self, eng, field, laplacian) ==
  total_action_after(self, compute_kinetic_term(self, eng, field, laplacian),
                     field, laplacian)

\* DissonanceFunctional(action).evaluate(field, laplacian)
evaluate(self, eng, field, laplacian) == compute_total_action(self, eng, field, laplacian)

----------------------------------------------------------------------------
(* core/v22/cancellation.py *)

\* the float inf, which 2.0 / np.sqrt(0) gives; like nan it is never an
\* operand of the arithmetic above
Inf == [sgn |-> 0, man |-> <<>>, exp |-> 2]

\* np.sum of fewer than 8 complex numbers: up to 3 are added one after the
\* other from 0; of 4 or more the first four are added in pairs,
\* (z1 + z2) + (z3 + z4), and the others then one after the other
np_sum_complex(zs) ==
  LET plus(a, b) == Complex(FAdd(a.re, b.re), FAdd(a.im, b.im))
      RECURSIVE from(_, _)
      from(k, acc) == IF k > Len(zs) THEN acc ELSE from(k + 1, plus(acc, zs[k]))
  IN IF Len(zs) < 4 THEN from(1, Complex(FZero, FZero))
     ELSE from(5, plus(plus(zs[1], zs[2]), plus(zs[3], zs[4])))

\* the comparison, were it not strict
float_le(a, b) == a # NaN /\ (b = Inf \/ FLe(a, b))

\* a < b for a float a that is finite or nan and a float b that is finite or
\* inf: a comparison with nan is False
float_lt(a, b) == a # NaN /\ (b = Inf \/ FLt(a, b))

\* verify_cancellation, were the planar case logged like the others
cancellation_planar_logged(eng, genus, num_samples, phases, signs) ==
  [engine |-> log_theoretical_step(eng, "Symplectic Cancellation Check",
                "IRH v22.1", "Theorem 3.1",
                [genus |-> genus, residual_amplitude |-> FOne, threshold |-> FZero,
                 is_cancelled |-> FALSE]),
   drawn |-> <<>>,
   ret |-> Return(FALSE)]

\* 2 ** 1024, the least magnitude that is no float any more
Overflow == [sgn |-> 0, man |-> <<1>>, exp |-> 1024]

\* x * x, which never raises
float_square(x) == Return(Square(x))

\* x ** 2 for a float x: Python raises OverflowError when the result is out
\* of range
float_pow2(x) ==
  IF FLe(Overflow, Square(x)) THEN Raise("OverflowError") ELSE Return(Square(x))

\* 9 / (8 * np.pi**2)
beta_coefficient == FDiv(FromInt(9), FMul(FromInt(8), Square(Pi)))

\* -2 * lambda_tilde + (9 / (8 * np.pi**2)) * lambda_tilde**2, given the
\* square
beta_theory(lambda_tilde, squared) ==
  FAdd(FMul(FromInt(-2), lambda_tilde), FMul(beta_coefficient, squared))

\* the log and the return value of verify_exact_beta_functions, given the
\* outcome of lambda_tilde**2
beta_outcome(eng, lambda_tilde, squared) ==
  IF ~squared.ok THEN [engine |-> eng, ret |-> squared]
  ELSE [engine |-> log_theoretical_step(eng, "Verify Exact Beta Function", "IRH v22.1",
                                        "Sec. 3.2",
                                        ("lambda" :> lambda_tilde)
                                          @@ ("beta_lambda" :> beta_theory(lambda_tilde, squared.val))),
        ret |-> Return(TRUE)]

\* verify_exact_beta_functions(lambda_tilde)
verify_exact_beta_functions(eng, lambda_tilde) ==
  beta_outcome(eng, lambda_tilde, float_pow2(lambda_tilde))

\* verify_cancellation(genus, num_samples), phases and signs being the values
\* that np.random.uniform(0, 2*np.pi, num_samples) and
\* np.random.choice([-1, 1], size=num_samples) hand out; drawn is what was
\* taken from np.random.  np.random.uniform raises for a negative size; for
\* num_samples = 0 the amplitude is nan and the threshold inf.
verify_cancellation(eng, genus, num_samples, phases, signs) ==
  LET contribution(k) ==
        IF signs[k] = 1 THEN exp_1j(phases[k])
        ELSE Complex(FNeg(exp_1j(phases[k]).re), FNeg(exp_1j(phases[k]).im))
      normalized_amplitude ==
        IF num_samples = 0 THEN NaN
        ELSE FDiv(np_abs(np_sum_complex([k \in 1..num_samples |-> contribution(k)])),
                  FromInt(num_samples))
      threshold ==
        IF num_samples = 0 THEN Inf
        ELSE FDiv(FromInt(2), FSqrt(FromInt(num_samples)))
      is_cancelled == float_lt(normalized_amplitude, threshold)
  IN IF genus = 0 THEN [engine |-> eng, drawn |-> <<>>, ret |-> Return(FALSE)]
     ELSE IF num_samples < 0
       THEN [engine |-> eng, drawn |-> <<>>, ret |-> Raise("ValueError")]
     ELSE [engine |-> log_theoretical_step(eng, "Symplectic Cancellation Check",
                        "IRH v22.1", "Theorem 3.1",
                        [genus |-> genus, residual_amplitude |-> normalized_amplitude,
                         threshold |-> threshold, is_cancelled |-> is_cancelled]),
           drawn |-> phases \o signs,
           ret |-> Return(is_cancelled)]

----------------------------------------------------------------------------
(* core/v22/harmony.py.  np.linalg.eigvalsh reads the lower triangle of a   *)
(* square array and never looks at the upper one; it is modelled as         *)
(* LAPACK's dsyevd computes it for the arrays of at most two rows and for   *)
(* those whose lower triangle is zero, none of them small or large enough   *)
(* to be scaled.  An array that is not square makes it raise LinAlgError.   *)

\* the float -inf; like inf and nan it is never an operand of the arithmetic
\* above
NegInf == [sgn |-> 1, man |-> <<>>, exp |-> 2]

\* HarmonyFunctional(c_h); its transparency is the module's engine
HarmonyFunctional(c_h) == [c_h |-> c_h]

\* HarmonyFunctional(): c_h = 0.045935703598
DefaultHarmony ==
  HarmonyFunctional([sgn |-> 0, man |-> <<9547, 25264, 5001, 188>>, exp |-> -57])

\* 1e-10: an eigenvalue of at most this magnitude is a zero mode
ZeroMode == [sgn |-> 0, man |-> <<15803, 13231, 29567, 219>>, exp |-> -86]

\* 2^-53, against which dsterf tests an off-diagonal entry
Eps == [sgn |-> 0, man |-> <<1>>, exp |-> -53]

\* np.sum(laplacian**2): the squares of the entries, row after row
tr_l2(laplacian) ==
  np_sum([k \in 1..(Len(laplacian) * Len(laplacian)) |->
            Square(laplacian[((k - 1) \div Len(laplacian)) + 1]
                            [((k - 1) % Len(laplacian)) + 1])])

RECURSIVE insert_sorted(_, _)
\* the sorted list s with x put in its place
insert_sorted(x, s) ==
  IF s = <<>> THEN <<x>>
  ELSE IF FLe(x, s[1]) THEN <<x>> \o s
  ELSE <<s[1]>> \o insert_sorted(x, Tail(s))

RECURSIVE ascending(_)
\* the floats xs in increasing order
ascending(xs) ==
  IF xs = <<>> THEN xs ELSE insert_sorted(xs[1], ascending(Tail(xs)))

\* dlae2's rt from adf = |a - c| and ab = |2b|
dlae2_rt(adf, ab) ==
  IF FLt(ab, adf) THEN FMul(adf, FSqrt(FAdd(FOne, Square(FDiv(ab, adf)))))
  ELSE IF FLt(adf, ab) THEN FMul(ab, FSqrt(FAdd(FOne, Square(FDiv(adf, ab)))))
  ELSE FMul(ab, FSqrt(FromInt(2)))

\* dlae2's two eigenvalues from rt1, the one of larger magnitude
dlae2_pair(rt1, acmx, acmn, b) ==
  <<rt1, FSub(FMul(FDiv(acmx, rt1), acmn), FMul(FDiv(b, rt1), b))>>

\* dlae2's eigenvalues from sm = a + c and rt
dlae2_roots(sm, rt, acmx, acmn, b) ==
  IF FNegative(sm)
    THEN dlae2_pair(FMul(FDiv(FOne, FromInt(2)), FSub(sm, rt)), acmx, acmn, b)
  ELSE IF sm # FZero
    THEN dlae2_pair(FMul(FDiv(FOne, FromInt(2)), FAdd(sm, rt)), acmx, acmn, b)
  ELSE <<FMul(FDiv(FOne, FromInt(2)), rt), FNeg(FMul(FDiv(FOne, FromInt(2)), rt))>>

\* LAPACK's dlae2: the eigenvalues of [[a, b], [b, c]] with b not 0
dlae2(a, b, c) ==
  dlae2_roots(FAdd(a, c), dlae2_rt(FAbs(FSub(a, c)), FAbs(FAdd(b, b))),
              IF FLt(FAbs(c), FAbs(a)) THEN a ELSE c,
              IF FLt(FAbs(c), FAbs(a)) THEN c ELSE a, b)

\* np.linalg.eigvalsh(a) for a square a: the eigenvalues, in increasing
\* order, of the symmetric matrix that has the lower triangle of a.  dsterf
\* takes an off-diagonal entry b for 0 when |b| <= sqrt|a| * sqrt|c| * eps.
eigvalsh(a) ==
  IF \A i \in 1..Len(a) : \A j \in 1..(i - 1) : a[i][j] = FZero
    THEN ascending([i \in 1..Len(a) |-> a[i][i]])
  ELSE IF Len(a) = 2
    THEN IF FLe(FAbs(a[2][1]),
                FMul(FMul(FSqrt(FAbs(a[1][1])), FSqrt(FAbs(a[2][2]))), Eps))
           THEN ascending(<<a[1][1], a[2][2]>>)
           ELSE ascending(dlae2(a[1][1], FAbs(a[2][1]), a[2][2]))
  ELSE CHOOSE w \in {} : TRUE

\* np.log of the floats the runs below pass to it, correctly rounded
LogTable ==
  {[arg |-> [sgn |-> 0, man |-> <<1>>, exp |-> 1],
    val |-> [sgn |-> 0, man |-> <<14831, 32244, 14603, 177>>, exp |-> -53]],
   [arg |-> [sgn |-> 0, man |-> <<3>>, exp |-> 0],
    val |-> [sgn |-> 0, man |-> <<779, 30042, 20393, 140>>, exp |-> -52]],
   [arg |-> [sgn |-> 0, man |-> <<1>>, exp |-> 2],
    val |-> [sgn |-> 0, man |-> <<14831, 32244, 14603, 177>>, exp |-> -52]]}

\* np.log(x) for a float x > 0
np_log(x) == IF x = FOne THEN FZero ELSE (CHOOSE e \in LogTable : e.arg = x).val

\* eigvals[np.abs(eigvals) > 1e-10]
non_zero_eigs(eigvals) == SelectSeq(eigvals, LAMBDA x : FLt(ZeroMode, FAbs(x)))

\* log_det, were the sum over no eigenvalue taken when all are zero modes
log_det_sum_only(eigs) == np_sum([k \in 1..Len(eigs) |-> np_log(FAbs(eigs[k]))])

\* log_det from non_zero_eigs: -np.inf if there is none, else
\* np.sum(np.log(np.abs(non_zero_eigs)))
log_det(eigs) ==
  IF Len(eigs) = 0 THEN NegInf
  ELSE np_sum([k \in 1..Len(eigs) |-> np_log(FAbs(eigs[k]))])

\* c_h * log_det for a float c_h and a log_det that is a float or -inf
times_log_det(c_h, ld) ==
  IF ld # NegInf THEN FMul(c_h, ld)
  ELSE IF c_h = FZero THEN NaN
  ELSE IF c_h.sgn = 0 THEN NegInf
  ELSE Inf

\* tr_l2 - p for a float tr_l2 and a p that is a float, inf, -inf or nan
minus_product(tr, p) ==
  IF p = NaN THEN NaN
  ELSE IF p = NegInf THEN Inf
  ELSE IF p = Inf THEN NegInf
  ELSE FSub(tr, p)

\* the log and the return of compute_harmony
harmony_outcome(self, eng, tr, ld, harmony) ==
  [engine |-> log_theoretical_step(eng, "Compute Harmony Functional", "IRH v22.2",
                "Sec. 4.1",
                ("Tr(L^2)" :> tr) @@ ("log_det" :> ld) @@ ("C_H" :> self.c_h)
                  @@ ("Harmony" :> harmony)),
   ret |-> Return(harmony)]

\* harmony = tr_l2 - self.c_h * log_det
harmony_from(self, eng, tr, ld) ==
  harmony_outcome(self, eng, tr, ld, minus_product(tr, times_log_det(self.c_h, ld)))

\* compute_harmony(laplacian) for a two-dimensional array: one that is not
\* square makes eigvalsh raise LinAlgError and then eigvals as well
compute_harmony(self, eng, laplacian) ==
  IF \E i \in 1..Len(laplacian) : Len(laplacian[i]) # Len(laplacian)
    THEN [engine |-> eng, ret |-> Raise("LinAlgError")]
    ELSE harmony_from(self, eng, tr_l2(laplacian),
                      log_det(non_zero_eigs(eigvalsh(laplacian))))

----------------------------------------------------------------------------
(* The state: two Quaternion objects q1, q2, the name op and the outcome out *)
(* of the last call made on them; a ResonantNode node, the arguments last   *)
(* of the last update_phase call on it and the number steps of such calls.  *)
(* Further: the module's TransparencyEngine engine, a                       *)
(* CymaticResonanceNetwork net, a SymplecticAction action, a field (a list  *)
(* of GInfElement), the arguments args of the last call that took any, and  *)
(* the values draws that np.random has handed out.  Further: a              *)
(* HarmonyFunctional functional; the objects heap that are reached through  *)
(* references (a reference is an index of heap), the objects holders that   *)
(* hold such references; and the threads that run log_theoretical_step.     *)

VARIABLES q1, q2, op, out, node, last, steps, engine, net, action, field,
          args, draws, functional, heap, holders, threads

vars == <<q1, q2, op, out, node, last, steps, engine, net, action, field,
          args, draws, functional, heap, holders, threads>>

\* the state of the runs with a functional, with references or with threads
beyond_calls == <<functional, heap, holders, threads>>

\* an object that is not constructed
Absent == [constructed |-> FALSE]

\* the state outside of the quaternions and of the last call
beyond_quaternions ==
  <<node, last, steps, engine, net, action, field, args, draws, beyond_calls>>

\* the state outside of the node
beyond_node == <<q1, q2, op, out, engine, net, action, field, args, draws, beyond_calls>>

\* there is no functional, no object reached by reference and no thread
no_references ==
  /\ functional = Absent
  /\ heap = <<>>
  /\ holders = <<>>
  /\ threads = <<>>

\* nothing but the quaternions, the node and the engine is constructed
nothing_else ==
  /\ net = Absent
  /\ action = Absent
  /\ field = <<>>
  /\ args = <<>>
  /\ draws = <<>>
  /\ no_references

\* the largest magnitude of a component of an operand drawn from the grid
MaxComp == 1

\* the largest number of update_phase calls in a run
MaxSteps == 3

Comps == (-MaxComp)..MaxComp

QuatOf(w, x, y, z) == Quaternion(FromInt(w), FromInt(x), FromInt(y), FromInt(z))

\* the quaternions the tests build: Quaternion(1, 2, 3, 4), (5, 6, 7, 8),
\* (0, 3, 4, 0), (1, 1, 1, 1)
TestQuats ==
  {QuatOf(1, 2, 3, 4), QuatOf(5, 6, 7, 8), QuatOf(0, 3, 4, 0), QuatOf(1, 1, 1, 1)}

\* the first operands: every quaternion of integer components up to MaxComp
\* in magnitude, and those of the tests
Quats == {QuatOf(w, x, y, z) : w, x, y, z \in Comps} \cup TestQuats

ZeroQuat == Quaternion(FZero, FZero, FZero, FZero)

\* -q, as in test_antipodal_states
Negated(q) == Quaternion(FNeg(q.w), FNeg(q.x), FNeg(q.y), FNeg(q.z))

\* a quaternion whose 4-vector is orthogonal to that of q
Orthogonal(q) == Quaternion(FNeg(q.x), q.w, FNeg(q.z), q.y)

\* q with its imaginary components rotated: i to j, j to k, k to i, and back
Shifted(q) == Quaternion(q.w, q.z, q.x, q.y)
Unshifted(q) == Quaternion(q.w, q.y, q.z, q.x)

\* Quaternion(1, 2, 3, 4)
Generic == QuatOf(1, 2, 3, 4)

\* the second operands tried with a first operand q
Partners(q) ==
  {q, Negated(q), ZeroQuat, Orthogonal(q), Shifted(q), Unshifted(q), Generic}

NoCall == [op |-> "none", ret |-> Return("None")]

Dt01 == [sgn |-> 0, man |-> <<19661, 6553, 13107, 102>>, exp |-> -55]
Tiny == [sgn |-> 0, man |-> <<16931, 6436, 29316, 188>>, exp |-> -119]
Freq09 == [sgn |-> 0, man |-> <<19661, 6553, 13107, 230>>, exp |-> -53]

\* phases a node is constructed with: 0.0, 0.1, 2*pi, 7.0, -1.0
Phases == {FZero, Dt01, TwoPi, FromInt(7), FromInt(-1)}

\* frequencies: 1.0, 0.9, -1.0
Freqs == {FOne, Freq09, FromInt(-1)}

\* time steps: 0.0, 0.1, -0.1, 1e-20, -1e-20, 7.0
Dts == {FZero, Dt01, FNeg(Dt01), Tiny, FNeg(Tiny), FromInt(7)}

Init ==
  /\ q1 \in Quats
  /\ q2 \in Partners(q1)
  /\ op = "none"
  /\ out = Return("None")
  /\ node = ResonantNode(0, DefaultState, FOne)
  /\ last = NoCall
  /\ steps = 0
  /\ engine = _engine
  /\ nothing_else

\* A call of a method of q1 with the argument q2, of effect e.  (The effect is
\* bound by a quantifier so that it is computed once.)
Binary(name, effect) ==
  /\ op = "none"
  /\ \E e \in {effect} :
       /\ q1' = e.self
       /\ q2' = e.other
       /\ op' = name
       /\ out' = e.ret
  /\ UNCHANGED beyond_quaternions

\* a call of a method of q1, of effect e
Unary(name, effect) ==
  /\ op = "none"
  /\ \E e \in {effect} :
       /\ q1' = e.self
       /\ op' = name
       /\ out' = e.ret
  /\ UNCHANGED <<q2, beyond_quaternions>>

Mul == Binary("__mul__", __mul__(q1, q2))
Add == Binary("__add__", __add__(q1, q2))
Sub == Binary("__sub__", __sub__(q1, q2))
Conjugate == Unary("conjugate", conjugate(q1))
NormSq == Unary("norm_sq", norm_sq(q1))
Norm == Unary("norm", norm(q1))
Inverse == Unary("inverse", inverse(q1))
Normalize == Unary("normalize", normalize(q1))
ToNumpy == Unary("to_numpy", to_numpy(q1))

ComputeQncd ==
  /\ op = "none"
  /\ \E e \in {compute_qncd(q1, q2)} :
       /\ q1' = e.q1
       /\ q2' = e.q2
       /\ op' = "compute_qncd"
       /\ out' = e.ret
  /\ UNCHANGED beyond_quaternions

\* the caller drops the result
Discard ==
  /\ op # "none"
  /\ op' = "none"
  /\ out' = Return("None")
  /\ UNCHANGED <<q1, q2, beyond_quaternions>>

Next ==
  \/ Mul \/ Add \/ Sub \/ Conjugate \/ NormSq \/ Norm \/ Inverse \/ Normalize
  \/ ToNumpy \/ ComputeQncd \/ Discard

Spec == Init /\ [][Next]_vars

\* the SU(2) parts a node is constructed with: the default (1, 0, 0, 0),
\* (0, 1, 0, 0) and (1, 2, 3, 4)
NodeQuats == {DefaultState.su2, QuatOf(0, 1, 0, 0), Generic}

InitNode ==
  /\ q1 = ZeroQuat
  /\ q2 = ZeroQuat
  /\ op = "none"
  /\ out = Return("None")
  /\ \E su2 \in NodeQuats, p \in Phases, f \in Freqs :
       node = ResonantNode(0, GInfElement(su2, p), f)
  /\ last = NoCall
  /\ steps = 0
  /\ engine = _engine
  /\ nothing_else

UpdatePhase(dt) ==
  /\ steps < MaxSteps
  /\ \E e \in {update_phase(node, dt)} :
         /\ node' = e.self
         /\ last' = [op |-> "update_phase", ret |-> e.ret, dt |-> dt,
                     before |-> node.state.phase]
  /\ steps' = steps + 1
  /\ UNCHANGED beyond_node

NextNode == \E dt \in Dts : UpdatePhase(dt)

SpecNode == InitNode /\ [][NextNode]_vars

----------------------------------------------------------------------------
(* A CymaticResonanceNetwork: its construction, and calls in any order of   *)
(* update_phase on one of its nodes and of its two methods.  last keeps the *)
(* constructor's call, args the arguments of the last update_phase.         *)

\* the largest num_nodes a network is constructed with
MaxNodes == 2

\* the largest number of calls made on a network
MaxNetCalls == 2

\* values np.random.normal(0, 0.1) hands out: -0.1, -1.0 and 1.0
Normals == {FNeg(Dt01), FNeg(FOne), FOne}

\* the state outside of the network, its engine and the last call
beyond_network == <<q1, q2, node, action, field, beyond_calls>>

InitNet ==
  /\ q1 = ZeroQuat
  /\ q2 = ZeroQuat
  /\ op = "none"
  /\ out = Return("None")
  /\ node = ResonantNode(0, DefaultState, FOne)
  /\ last = NoCall
  /\ steps = 0
  /\ engine = _engine
  /\ nothing_else

\* net = CymaticResonanceNetwork(num_nodes)
Construct(num_nodes) ==
  /\ op = "none"
  /\ \E normals \in [1..num_nodes -> Normals] :
       \E e \in {CymaticResonanceNetwork(num_nodes, normals)} :
         /\ op' = "__init__"
         /\ out' = (IF e.ok THEN Return("None") ELSE e)
         /\ net' = (IF e.ok THEN e.val ELSE Absent)
         /\ draws' = draws \o normals
  /\ last' = [op |-> "__init__", num_nodes |-> num_nodes]
  /\ UNCHANGED <<beyond_network, steps, engine, args>>

\* net.nodes[i].update_phase(dt), i counted from 0
NetUpdatePhase(i, dt) ==
  /\ net # Absent
  /\ steps < MaxNetCalls
  /\ i < Len(net.nodes)
  /\ op' = "update_phase"
  /\ \E e \in {update_phase(net.nodes[i + 1], dt)} :
       /\ out' = e.ret
       /\ net' = [net EXCEPT !.nodes[i + 1] = e.self]
  /\ args' = <<i, dt>>
  /\ steps' = steps + 1
  /\ UNCHANGED <<beyond_network, last, engine, draws>>

\* a call of a method of net that takes no argument, of outcome e
NetCall(name, e) ==
  /\ op' = name
  /\ out' = e.ret
  /\ net' = e.self
  /\ engine' = e.engine
  /\ steps' = steps + 1
  /\ UNCHANGED <<beyond_network, last, args, draws>>

GetCollectiveWavefunction ==
  /\ net # Absent
  /\ steps < MaxNetCalls
  /\ \E e \in {get_collective_wavefunction(net, engine)} :
       NetCall("get_collective_wavefunction", e)

CheckSpectralStability ==
  /\ net # Absent
  /\ steps < MaxNetCalls
  /\ \E e \in {check_spectral_stability(net, engine)} :
       NetCall("check_spectral_stability", e)

NextNet ==
  \/ \E n \in (-1)..MaxNodes : Construct(n)
  \/ \E i \in 0..(MaxNodes - 1) : NetUpdatePhase(i, Dt01)
  \/ GetCollectiveWavefunction
  \/ CheckSpectralStability

SpecNet == InitNet /\ [][NextNet]_vars

----------------------------------------------------------------------------
(* A SymplecticAction and a field: calls of compute_kinetic_term,           *)
(* compute_interaction_term, compute_total_action and of                    *)
(* DissonanceFunctional.evaluate.  args keeps the arguments of the last     *)
(* call.                                                                    *)

\* the largest number of calls made on an action
MaxCalls == 1

PiHalf == [sgn |-> 0, man |-> <<1443, 21777, 4349, 25>>, exp |-> -49]

\* the elements of the fields: (1, 0, 0, 0) and (1, 1, 0, 0) with the phases 0.0
\* and np.pi, (0, 1, 0, 0) with np.pi / 2 and (1, 2, 3, 4) with 0.0
ActElements ==
  {GInfElement(q, p) : q \in {QuatOf(1, 0, 0, 0), QuatOf(1, 1, 0, 0)}, p \in {FZero, Pi}}
    \cup {GInfElement(QuatOf(0, 1, 0, 0), PiHalf), GInfElement(Generic, FZero)}

\* fields of zero, one, two and four elements
Fields ==
  {<<>>} \cup {<<g>> : g \in ActElements}
         \cup {<<g, h>> : g, h \in ActElements}
         \cup {<<g, h, h, g>> : g, h \in ActElements}

\* the actions: SymplecticAction(), and with the couplings of the tests
SymplecticActions ==
  {DefaultAction, SymplecticAction(FOne, FOne),
   SymplecticAction(FOne, FZero)}

\* n x n matrices: the identity, the zero matrix and the Laplacian of a path
Laplacians(n) ==
  { [i \in 1..n |-> [j \in 1..n |-> IF i = j THEN FOne ELSE FZero]],
    [i \in 1..n |-> [j \in 1..n |-> FZero]],
    [i \in 1..n |-> [j \in 1..n |->
       IF i = j THEN (IF i = 1 \/ i = n THEN FOne ELSE FromInt(2))
       ELSE IF i - j = 1 \/ j - i = 1 THEN FromInt(-1) ELSE FZero]] }

InitAct ==
  /\ q1 = ZeroQuat
  /\ q2 = ZeroQuat
  /\ op = "none"
  /\ out = Return("None")
  /\ node = ResonantNode(0, DefaultState, FOne)
  /\ last = NoCall
  /\ steps = 0
  /\ engine = _engine
  /\ net = Absent
  /\ action \in SymplecticActions
  /\ field \in Fields
  /\ args = <<>>
  /\ draws = <<>>
  /\ no_references

\* a call name(*arguments) of outcome e
ActCall(name, arguments, e) ==
  /\ op' = name
  /\ args' = arguments
  /\ out' = e.ret
  /\ engine' = e.engine
  /\ steps' = steps + 1
  /\ UNCHANGED <<q1, q2, node, last, net, action, field, draws, beyond_calls>>

ComputeKineticTerm ==
  /\ steps < MaxCalls
  /\ \E laplacian \in Laplacians(Len(field)) :
       \E e \in {compute_kinetic_term(action, engine, field, laplacian)} :
         ActCall("compute_kinetic_term", <<field, laplacian>>, e)

\* with the field alone, or with the field and an adjacency matrix
ComputeInteractionTerm ==
  /\ steps < MaxCalls
  /\ \E positional \in {<<field>>} \cup {<<field, m>> : m \in Laplacians(Len(field))} :
       \E e \in {compute_interaction_term(action, engine, positional)} :
         ActCall("compute_interaction_term", positional, e)

ComputeTotalAction ==
  /\ steps < MaxCalls
  /\ \E laplacian \in Laplacians(Len(field)) :
       \E e \in {compute_total_action(action, engine, field, laplacian)} :
         ActCall("compute_total_action", <<field, laplacian>>, e)

Evaluate ==
  /\ steps < MaxCalls
  /\ \E laplacian \in Laplacians(Len(field)) :
       \E e \in {evaluate(action, engine, field, laplacian)} :
         ActCall("evaluate", <<field, laplacian>>, e)

NextAct == ComputeKineticTerm \/ ComputeInteractionTerm \/ ComputeTotalAction \/ Evaluate

SpecAct == InitAct /\ [][NextAct]_vars

----------------------------------------------------------------------------
(* evaluate_kernel on the four elements of a field, taken in their order or *)
(* in the reverse order, any number of times; the calls are not counted.    *)

\* (1, 0, 0, 0), (0, 1, 0, 0) orthogonal to it, (1, 1, 0, 0) of norm sqrt(2)
\* and the zero quaternion
KernelQuats == {QuatOf(1, 0, 0, 0), QuatOf(0, 1, 0, 0), QuatOf(1, 1, 0, 0), ZeroQuat}

\* the phases of test_kernel_evaluation and of test_kernel_integration
KernelPhases ==
  {<<FZero, FZero, FZero, FZero>>, <<Pi, Pi, Pi, Pi>>, <<FZero, FZero, FZero, Pi>>,
   <<FZero, PiHalf, FZero, Pi>>}

\* fields (a, b, a, b) as in test_kernel_with_distance_weighting
KernelFields ==
  {[i \in 1..4 |-> GInfElement(qs[i], ps[i])] :
     qs \in {<<a, b, a, b>> : a, b \in KernelQuats}, ps \in KernelPhases}

\* gamma_coupling: 0.0, 0.5, 1.0, the default 105.276, 1e-20 and -1.0
KernelActions ==
  {DefaultAction}
    \cup {SymplecticAction(FOne, g) :
            g \in {FZero, FDiv(FOne, FromInt(2)), FOne, Tiny, FromInt(-1)}}

InitKernel ==
  /\ q1 = ZeroQuat
  /\ q2 = ZeroQuat
  /\ op = "none"
  /\ out = Return("None")
  /\ node = ResonantNode(0, DefaultState, FOne)
  /\ last = NoCall
  /\ steps = 0
  /\ engine = _engine
  /\ net = Absent
  /\ action \in KernelActions
  /\ field \in KernelFields
  /\ args = <<>>
  /\ draws = <<>>
  /\ no_references

\* action.evaluate_kernel(g[1], g[2], g[3], g[4])
EvaluateKernel(g) ==
  \E e \in {evaluate_kernel(action, engine, g[1], g[2], g[3], g[4])} :
    /\ op' = "evaluate_kernel"
    /\ args' = g
    /\ out' = e.ret
    /\ engine' = e.engine
    /\ UNCHANGED <<q1, q2, node, last, steps, net, action, field, draws, beyond_calls>>

NextKernel ==
  \/ EvaluateKernel(field)
  \/ EvaluateKernel(<<field[4], field[3], field[2], field[1]>>)

SpecKernel == InitKernel /\ [][NextKernel]_vars

----------------------------------------------------------------------------
(* One call of verify_cancellation on a SymplecticCancellation, whose       *)
(* transparency is the module's engine; the engine's log is empty or holds  *)
(* the record of an earlier computation.                                    *)

\* the largest num_samples for which the samples are drawn
MaxSamples == 2

\* the sample count 4, for which the threshold 2/sqrt(4) is 1.0, the largest
\* amplitude there is
AlignedCounts == {4}

\* the sample counts: up to MaxSamples, 4, the default 1000 and the 10000 of
\* the test
SampleCounts == ((-1)..MaxSamples) \cup AlignedCounts \cup {1000, 10000}

\* values np.random.uniform(0, 2*np.pi) hands out: 0, pi/2, pi and 3*pi/2
UniformPhases == {FZero, PiHalf, Pi, FAdd(Pi, PiHalf)}

\* the phases that n draws hand out: any of UniformPhases for n <= MaxSamples,
\* the same one n times for a larger n
DrawnPhases(n) ==
  IF n <= MaxSamples THEN [1..n -> UniformPhases]
  ELSE {[k \in 1..n |-> p] : p \in UniformPhases}

InitCancel ==
  /\ q1 = ZeroQuat
  /\ q2 = ZeroQuat
  /\ op = "none"
  /\ out = Return("None")
  /\ node = ResonantNode(0, DefaultState, FOne)
  /\ last = NoCall
  /\ steps = 0
  /\ engine \in {_engine, compute_kinetic_term(DefaultAction, _engine, <<>>, <<>>).engine}
  /\ nothing_else

\* verify_cancellation(genus, num_samples); the samples are drawn where the
\* code draws them
VerifyCancellation(genus, num_samples) ==
  /\ op = "none"
  /\ genus = 0 \/ num_samples <= MaxSamples \/ num_samples \in AlignedCounts
  /\ op' = "verify_cancellation"
  /\ args' = <<genus, num_samples>>
  /\ \E n \in {IF genus = 0 \/ num_samples < 0 THEN 0 ELSE num_samples} :
       \E phases \in DrawnPhases(n), signs \in [1..n -> {-1, 1}] :
         \E e \in {verify_cancellation(engine, genus, num_samples, phases, signs)} :
           /\ out' = e.ret
           /\ engine' = e.engine
           /\ draws' = draws \o e.drawn
  /\ UNCHANGED <<q1, q2, node, last, steps, net, action, field, beyond_calls>>

\* the couplings: 17.55 of the test, 0.5, 0.0, -3.0, 1e154, the largest
\* float whose square is a float and its negative, 2 ** 512 and its negative,
\* and 1.4e154
BetaCouplings ==
  {[sgn |-> 0, man |-> <<19661, 6553, 13107, 140>>, exp |-> -48],
   FDiv(FOne, FromInt(2)), FZero, FromInt(-3),
   [sgn |-> 0, man |-> <<24561, 22034, 30589, 190>>, exp |-> 459],
   [sgn |-> 0, man |-> <<32767, 32767, 32767, 255>>, exp |-> 459],
   [sgn |-> 1, man |-> <<32767, 32767, 32767, 255>>, exp |-> 459],
   [sgn |-> 0, man |-> <<1>>, exp |-> 512],
   [sgn |-> 1, man |-> <<1>>, exp |-> 512],
   [sgn |-> 0, man |-> <<11873, 12627, 27090, 66>>, exp |-> 461]}

\* verify_exact_beta_functions(lambda_tilde)
VerifyExactBetaFunctions(lambda_tilde) ==
  /\ op = "none"
  /\ op' = "verify_exact_beta_functions"
  /\ args' = <<lambda_tilde>>
  /\ \E e \in {verify_exact_beta_functions(engine, lambda_tilde)} :
       /\ out' = e.ret
       /\ engine' = e.engine
  /\ UNCHANGED <<q1, q2, node, last, steps, net, action, field, draws, beyond_calls>>

NextCancel ==
  \/ \E genus \in (-1)..2, num_samples \in SampleCounts :
       VerifyCancellation(genus, num_samples)
  \/ \E lambda_tilde \in BetaCouplings : VerifyExactBetaFunctions(lambda_tilde)

SpecCancel == InitCancel /\ [][NextCancel]_vars

----------------------------------------------------------------------------
(* One call of compute_harmony on a HarmonyFunctional, whose transparency   *)
(* is the module's engine; the engine's log is empty or holds the record of *)
(* an earlier computation.                                                  *)

\* the largest number of rows of a matrix
MaxDim == 2

\* the functionals: HarmonyFunctional(), and c_h = 1.0, 0.5, 0.0 and -1.0
HarmonyFunctionals ==
  {DefaultHarmony}
    \cup {HarmonyFunctional(c) :
            c \in {FOne, FDiv(FOne, FromInt(2)), FZero, FromInt(-1)}}

\* 1e-11, a zero mode that is not 0
TinyMode == [sgn |-> 0, man |-> <<25749, 17138, 30207, 175>>, exp |-> -89]

\* the diagonal entries 0, 1, 2, -1 and the other entries 0, -1, 1, 2
DiagVals == {FZero, FOne, FromInt(2), FromInt(-1)}
OffVals == {FZero, FromInt(-1), FOne, FromInt(2)}

\* the n x n matrix of the diagonal d, the others being 0
Diagonal(n, d) == [i \in 1..n |-> [j \in 1..n |-> IF i = j THEN d[i] ELSE FZero]]

\* the arrays of n rows: for n = 1 any entry; for n = 2 any diagonal with
\* any upper entry, and an equal diagonal with any two other entries, among
\* them np.eye(2), np.zeros((2, 2)) and [[1, -1], [-1, 1]] of the tests, and
\* two with the entry 1e-11; for n > 2 the diagonal ones; and [[1, 2]],
\* which is not square
Arrays(n) ==
  IF n = 1 THEN {<<<<x>>>> : x \in DiagVals \cup {TinyMode}} \cup {<<<<FOne, FromInt(2)>>>>}
  ELSE IF n = 2
    THEN {m \in {<<<<a, u>>, <<l, c>>>> :
                   a \in DiagVals, c \in DiagVals, l \in OffVals, u \in OffVals} :
            m[2][1] = FZero \/ m[1][1] = m[2][2]}
           \cup {Diagonal(2, <<TinyMode, TinyMode>>), Diagonal(2, <<TinyMode, FOne>>)}
  ELSE {Diagonal(n, d) : d \in [1..n -> DiagVals]}

InitHarmony ==
  /\ q1 = ZeroQuat
  /\ q2 = ZeroQuat
  /\ op = "none"
  /\ out = Return("None")
  /\ node = ResonantNode(0, DefaultState, FOne)
  /\ last = NoCall
  /\ steps = 0
  /\ engine \in {_engine, compute_kinetic_term(DefaultAction, _engine, <<>>, <<>>).engine}
  /\ net = Absent
  /\ action = Absent
  /\ field = <<>>
  /\ args = <<>>
  /\ draws = <<>>
  /\ functional \in HarmonyFunctionals
  /\ heap = <<>>
  /\ holders = <<>>
  /\ threads = <<>>

\* functional.compute_harmony(laplacian)
ComputeHarmony(laplacian) ==
  /\ op = "none"
  /\ op' = "compute_harmony"
  /\ args' = <<laplacian>>
  /\ \E e \in {compute_harmony(functional, engine, laplacian)} :
       /\ out' = e.ret
       /\ engine' = e.engine
  /\ UNCHANGED <<q1, q2, node, last, steps, net, action, field, draws, functional,
                 heap, holders, threads>>

NextHarmony == \E n \in 1..MaxDim : \E laplacian \in Arrays(n) : ComputeHarmony(laplacian)

SpecHarmony == InitHarmony /\ [][NextHarmony]_vars

----------------------------------------------------------------------------
(* Calls of log_theoretical_step, one after the other, on an engine of any  *)
(* verbosity.                                                               *)

\* the largest number of calls
MaxLogCalls == 2

\* the arguments of the calls: those of the test and of compute_kinetic_term
LogActions == {"TestAction", "Compute Kinetic Action"}
LogManuscripts == {"Doc1"}
LogEquations == {"Eq1", "Eq. 1.1"}

\* details: left out, {}, {"key": "value"} and two numbers
LogDetails ==
  {<<>>, <<no_details>>, <<"key" :> "value">>,
   <<("S_kin" :> FOne) @@ ("N" :> FromInt(2))>>}

InitLog ==
  /\ q1 = ZeroQuat
  /\ q2 = ZeroQuat
  /\ op = "none"
  /\ out = Return("None")
  /\ node = ResonantNode(0, DefaultState, FOne)
  /\ last = NoCall
  /\ steps = 0
  /\ engine \in {TransparencyEngine(verbosity) : verbosity \in (-1)..2}
  /\ nothing_else

\* engine.log_theoretical_step(act, manuscript_ref, equation_ref, details),
\* or without details if given is <<>>
LogTheoreticalStep(act, manuscript_ref, equation_ref, given) ==
  /\ steps < MaxLogCalls
  /\ steps' = steps + 1
  /\ op' = "log_theoretical_step"
  /\ args' = <<act, manuscript_ref, equation_ref, given>>
  /\ out' = Return("None")
  /\ engine' = log_theoretical_step(engine, act, manuscript_ref, equation_ref,
                                    details_or_empty(given))
  /\ UNCHANGED <<q1, q2, node, last, net, action, field, draws, beyond_calls>>

NextLog ==
  \E act \in LogActions, manuscript_ref \in LogManuscripts,
     equation_ref \in LogEquations, given \in LogDetails :
    LogTheoreticalStep(act, manuscript_ref, equation_ref, given)

SpecLog == InitLog /\ [][NextLog]_vars

----------------------------------------------------------------------------
(* Threads that call log_theoretical_step on the one engine, without a      *)
(* lock; the steps of a call are those between which another thread can     *)
(* run.  threads[t] is the call of thread t: its position pc, its arguments *)
(* and its local values.                                                    *)

\* the number of threads
MaxThreads == 2

\* a thread that has not called yet
Idle == [pc |-> "idle", act |-> "", given |-> <<>>, msg |-> <<>>, seen |-> <<>>,
         entry |-> <<>>]

InitThreads ==
  /\ q1 = ZeroQuat
  /\ q2 = ZeroQuat
  /\ op = "none"
  /\ out = Return("None")
  /\ node = ResonantNode(0, DefaultState, FOne)
  /\ last = NoCall
  /\ steps = 0
  /\ engine \in {_engine, compute_kinetic_term(DefaultAction, _engine, <<>>, <<>>).engine,
                 TransparencyEngine(0)}
  /\ net = Absent
  /\ action = Absent
  /\ field = <<>>
  /\ args = <<>>
  /\ draws = <<>>
  /\ functional = Absent
  /\ heap = <<>>
  /\ holders = <<>>
  /\ threads = [t \in 1..MaxThreads |-> Idle]

\* what a step of a thread leaves alone besides the engine
beyond_threads ==
  <<q1, q2, out, node, last, steps, net, action, field, args, draws, functional,
    heap, holders>>

\* thread t calls engine.log_theoretical_step(act, "IRH v22.2", "Sec. 4.1",
\* details), or without details if given is <<>>
CallLog(t, act, given) ==
  /\ threads[t].pc = "idle"
  /\ op' = "log_theoretical_step"
  /\ threads' = [threads EXCEPT ![t] = [threads[t] EXCEPT !.pc = "test", !.act = act,
                                                  !.given = given]]
  /\ UNCHANGED <<engine, beyond_threads>>

\* if self.verbosity > 0:
TestVerbosity(t) ==
  /\ threads[t].pc = "test"
  /\ threads' = [threads EXCEPT ![t].pc = IF engine.verbosity > 0 THEN "format" ELSE "done"]
  /\ UNCHANGED <<op, engine, beyond_threads>>

\* msg = f"Computing {action} per {manuscript_ref}, {equation_ref}", printed
FormatMessage(t) ==
  /\ threads[t].pc = "format"
  /\ threads' = [threads EXCEPT ![t] =
                   [threads[t] EXCEPT !.pc = "load",
                             !.msg = <<"Computing ", threads[t].act, " per ", "IRH v22.2", ", ",
                                       "Sec. 4.1">>]]
  /\ UNCHANGED <<op, engine, beyond_threads>>

\* self.logs.append is looked up: the list is loaded
LoadLogs(t) ==
  /\ threads[t].pc = "load"
  /\ threads' = [threads EXCEPT ![t] = [threads[t] EXCEPT !.pc = "build", !.seen = engine.logs]]
  /\ UNCHANGED <<op, engine, beyond_threads>>

\* LogEntry(timestamp=..., level="INFO", message=msg, context=details or {})
BuildEntry(t) ==
  /\ threads[t].pc = "build"
  /\ threads' = [threads EXCEPT ![t] =
                   [threads[t] EXCEPT !.pc = "append",
                             !.entry = <<[level |-> "INFO", message |-> threads[t].msg,
                                          context |-> details_or_empty(threads[t].given)]>>]]
  /\ UNCHANGED <<op, engine, beyond_threads>>

\* the call of append, after which the method returns
AppendEntry(t) ==
  /\ threads[t].pc = "append"
  /\ engine' = [engine EXCEPT !.logs = list_append(engine.logs, threads[t].seen, threads[t].entry[1])]
  /\ threads' = [threads EXCEPT ![t].pc = "done"]
  /\ UNCHANGED <<op, beyond_threads>>

NextThreads ==
  \E t \in 1..MaxThreads :
    \/ \E act \in {"TestAction", "Compute Harmony Functional"},
          given \in {<<>>, <<"key" :> "value">>} : CallLog(t, act, given)
    \/ TestVerbosity(t)
    \/ FormatMessage(t)
    \/ LoadLogs(t)
    \/ BuildEntry(t)
    \/ AppendEntry(t)

SpecThreads == InitThreads /\ [][NextThreads]_vars

----------------------------------------------------------------------------
(* Nodes and the state objects they refer to.  heap holds the GInfElement   *)
(* objects, holders the nodes, whose state is the place of an object in     *)
(* heap; threads[i] is the call of update_phase under way on node i, which  *)
(* reads the phase and writes it in two steps, so that calls on different   *)
(* nodes interleave.  Nodes are built by a CymaticResonanceNetwork or one   *)
(* at a time, always with the default state.                                *)

\* the state every node would refer to if the default were one object
shared_state(objects) == 1

\* the reference to the object that default_factory is about to build and
\* that is appended to objects
fresh_state(objects) == Len(objects) + 1

\* ResonantNode(id=id, frequency=frequency) in a heap hp
new_node(hp, id, frequency) ==
  [heap |-> Append(hp, DefaultState),
   node |-> ResonantNode(id, fresh_state(hp), frequency)]

\* the nodes k..num_nodes of the list comprehension of
\* CymaticResonanceNetwork(num_nodes), built after nodes in the heap hp
RECURSIVE network_nodes(_, _, _, _, _)
network_nodes(k, num_nodes, normals, hp, nodes) ==
  IF k > num_nodes THEN [heap |-> hp, nodes |-> nodes]
  ELSE network_nodes(k + 1, num_nodes, normals,
                     new_node(hp, k - 1, FAdd(FOne, normals[k])).heap,
                     Append(nodes, new_node(hp, k - 1, FAdd(FOne, normals[k])).node))

\* node n with its state object
with_state(n) == ResonantNode(n.id, heap[n.state], n.frequency)

\* no call of update_phase under way
NoUpdate == [pc |-> "idle", dt |-> FZero, value |-> FZero]

InitOwners ==
  /\ q1 = ZeroQuat
  /\ q2 = ZeroQuat
  /\ op = "none"
  /\ out = Return("None")
  /\ node = ResonantNode(0, DefaultState, FOne)
  /\ last = NoCall
  /\ steps = 0
  /\ engine = _engine
  /\ net = Absent
  /\ action = Absent
  /\ field = <<>>
  /\ args = <<>>
  /\ draws = <<>>
  /\ functional = Absent
  /\ heap = <<>>
  /\ holders = <<>>
  /\ threads = <<>>

\* what the steps on nodes leave alone
beyond_owners == <<q1, q2, node, last, engine, net, action, field, draws, functional>>

\* CymaticResonanceNetwork(num_nodes)
BuildNetwork(num_nodes, normals) ==
  /\ holders = <<>>
  /\ op' = "CymaticResonanceNetwork"
  /\ args' = <<num_nodes>>
  /\ out' = Return("None")
  /\ \E e \in {network_nodes(1, num_nodes, normals, heap, <<>>)} :
       /\ heap' = e.heap
       /\ holders' = e.nodes
  /\ threads' = [i \in 1..num_nodes |-> NoUpdate]
  /\ UNCHANGED <<steps, beyond_owners>>

\* ResonantNode(id=len(holders), frequency=frequency)
NewNode(frequency) ==
  /\ Len(holders) < MaxNodes
  /\ op' = "ResonantNode"
  /\ args' = <<frequency>>
  /\ out' = Return("None")
  /\ \E e \in {new_node(heap, Len(holders), frequency)} :
       /\ heap' = e.heap
       /\ holders' = Append(holders, e.node)
  /\ threads' = Append(threads, NoUpdate)
  /\ UNCHANGED <<steps, beyond_owners>>

\* holders[i].update_phase(dt) evaluates the right-hand side
ReadPhase(i, dt) ==
  /\ i <= Len(holders)
  /\ steps < MaxSteps
  /\ threads[i].pc = "idle"
  /\ steps' = steps + 1
  /\ threads' = [threads EXCEPT ![i] =
                   [pc |-> "store", dt |-> dt,
                    value |-> update_phase(with_state(holders[i]), dt).self.state.phase]]
  /\ UNCHANGED <<op, args, out, heap, holders, beyond_owners>>

\* holders[i].update_phase(dt) assigns self.state.phase and returns
StorePhase(i) ==
  /\ i <= Len(holders)
  /\ threads[i].pc = "store"
  /\ op' = "update_phase"
  /\ args' = <<i, threads[i].dt>>
  /\ out' = Return("None")
  /\ heap' = [heap EXCEPT ![holders[i].state] =
                GInfElement(heap[holders[i].state].su2, threads[i].value)]
  /\ threads' = [threads EXCEPT ![i] = NoUpdate]
  /\ UNCHANGED <<steps, holders, beyond_owners>>

NextOwners ==
  \/ \E num_nodes \in 0..MaxNodes : \E normals \in [1..num_nodes -> {FNeg(Dt01), FOne}] :
       BuildNetwork(num_nodes, normals)
  \/ \E frequency \in {FOne, Freq09} : NewNode(frequency)
  \/ \E i \in 1..MaxNodes : \E dt \in {Dt01, FromInt(7)} : ReadPhase(i, dt)
  \/ \E i \in 1..MaxNodes : StorePhase(i)

SpecOwners == InitOwners /\ [][NextOwners]_vars

----------------------------------------------------------------------------
(* Two nodes built alike: node is stepped by update_phase in pieces, whose  *)
(* time steps args collects, and holders[1], its twin, is then stepped once *)
(* by the sum of the pieces, as Python adds them.                           *)

\* the largest number of pieces
MaxPieces == 2

\* dts[1] + dts[2] + ..., from the left
RECURSIVE sum_of_steps(_)
sum_of_steps(dts) ==
  IF Len(dts) = 1 THEN dts[1]
  ELSE FAdd(sum_of_steps(SubSeq(dts, 1, Len(dts) - 1)), dts[Len(dts)])

InitPieces ==
  /\ q1 = ZeroQuat
  /\ q2 = ZeroQuat
  /\ op = "none"
  /\ out = Return("None")
  /\ \E p \in Phases, f \in Freqs : node = ResonantNode(0, GInfElement(DefaultState.su2, p), f)
  /\ last = NoCall
  /\ steps = 0
  /\ engine = _engine
  /\ net = Absent
  /\ action = Absent
  /\ field = <<>>
  /\ args = <<>>
  /\ draws = <<>>
  /\ functional = Absent
  /\ heap = <<>>
  /\ holders = <<node>>
  /\ threads = <<>>

\* node.update_phase(dt), a piece
UpdatePiece(dt) ==
  /\ last = NoCall
  /\ Len(args) < MaxPieces
  /\ op' = "update_phase"
  /\ args' = Append(args, dt)
  /\ \E e \in {update_phase(node, dt)} :
       /\ node' = e.self
       /\ out' = e.ret
  /\ UNCHANGED <<q1, q2, last, steps, engine, net, action, field, draws, functional,
                 heap, holders, threads>>

\* twin.update_phase(dt1 + dt2 + ...), once node has taken two pieces or more
UpdateAtOnce ==
  /\ last = NoCall
  /\ Len(args) >= 2
  /\ op' = "update_phase"
  /\ \E e \in {update_phase(holders[1], sum_of_steps(args))} :
       /\ holders' = <<e.self>>
       /\ out' = e.ret
       /\ last' = [op |-> "update_phase", ret |-> e.ret, dt |-> sum_of_steps(args),
                   before |-> holders[1].state.phase]
  /\ UNCHANGED <<q1, q2, node, steps, engine, net, action, field, args, draws,
                 functional, heap, threads>>

NextPieces ==
  \/ \E dt \in Dts : UpdatePiece(dt)
  \/ UpdateAtOnce

SpecPieces == InitPieces /\ [][NextPieces]_vars

----------------------------------------------------------------------------
(* Evaluators and the engine they log to.  heap holds the engines, the      *)
(* first being the module's _engine, built when the module is imported;     *)
(* holders holds the evaluators built so far, each with the reference its   *)
(* constructor got from get_transparency_engine().  Evaluators are built    *)
(* and their methods called in any order.                                   *)

\* the largest number of evaluators and of calls of their methods
MaxEvaluators == 2
MaxAuditCalls == 2

\* the field and the network the calls are made with
AuditField == <<GInfElement(QuatOf(1, 0, 0, 0), FZero), GInfElement(QuatOf(1, 1, 0, 0), Pi)>>
\* [[1, -1], [-1, 1]], the Laplacian of the path of two nodes
PathLaplacian == <<<<FOne, FromInt(-1)>>, <<FromInt(-1), FOne>>>>
AuditNetwork == CymaticResonanceNetwork(1, <<FNeg(Dt01)>>).val

\* an evaluator of a class, built with the defaults
Evaluator(class, objects) ==
  [class |-> class, transparency |-> get_transparency_engine(objects).ref]

InitAudit ==
  /\ q1 = ZeroQuat
  /\ q2 = ZeroQuat
  /\ op = "none"
  /\ out = Return("None")
  /\ node = ResonantNode(0, DefaultState, FOne)
  /\ last = NoCall
  /\ steps = 0
  /\ engine = _engine
  /\ net = Absent
  /\ action = Absent
  /\ field = <<>>
  /\ args = <<>>
  /\ draws = <<>>
  /\ functional = Absent
  /\ heap = <<_engine>>
  /\ holders = <<>>
  /\ threads = <<>>

beyond_audit == <<q1, q2, node, last, engine, net, action, field, draws, functional, threads>>

\* SymplecticAction(), SymplecticCancellation(), HarmonyFunctional() or
\* CymaticResonanceNetwork(1)
NewEvaluator(class) ==
  /\ Len(holders) < MaxEvaluators
  /\ op' = class
  /\ args' = <<>>
  /\ out' = Return("None")
  /\ heap' = get_transparency_engine(heap).heap
  /\ holders' = Append(holders, Evaluator(class, heap))
  /\ UNCHANGED <<steps, beyond_audit>>

\* the call name of outcome e on the evaluator k
AuditCall(k, name, e) ==
  /\ op' = name
  /\ args' = <<k>>
  /\ out' = e.ret
  /\ heap' = [heap EXCEPT ![holders[k].transparency] = e.engine]
  /\ steps' = steps + 1
  /\ UNCHANGED <<holders, beyond_audit>>

\* the engine of the evaluator k
engine_of(k) == heap[holders[k].transparency]

KineticThrough(k) ==
  /\ steps < MaxAuditCalls
  /\ k <= Len(holders)
  /\ holders[k].class = "SymplecticAction"
  /\ \E laplacian \in {Diagonal(2, <<FOne, FOne>>), PathLaplacian} :
       AuditCall(k, "compute_kinetic_term",
                 compute_kinetic_term(DefaultAction, engine_of(k), AuditField, laplacian))

InteractionThrough(k) ==
  /\ steps < MaxAuditCalls
  /\ k <= Len(holders)
  /\ holders[k].class = "SymplecticAction"
  /\ AuditCall(k, "compute_interaction_term",
               compute_interaction_term(DefaultAction, engine_of(k),
                                        <<AuditField, PathLaplacian>>))

TotalThrough(k) ==
  /\ steps < MaxAuditCalls
  /\ k <= Len(holders)
  /\ holders[k].class = "SymplecticAction"
  /\ AuditCall(k, "compute_total_action",
               compute_total_action(DefaultAction, engine_of(k), AuditField, PathLaplacian))

\* DissonanceFunctional(action).evaluate, action being the evaluator k
EvaluateThrough(k) ==
  /\ steps < MaxAuditCalls
  /\ k <= Len(holders)
  /\ holders[k].class = "SymplecticAction"
  /\ AuditCall(k, "evaluate",
               evaluate(DefaultAction, engine_of(k), AuditField,
                        Diagonal(2, <<FOne, FOne>>)))

\* compute_harmony of the path's Laplacian and of [[1, 2]], which is not
\* square
HarmonyThrough(k) ==
  /\ steps < MaxAuditCalls
  /\ k <= Len(holders)
  /\ holders[k].class = "HarmonyFunctional"
  /\ \E laplacian \in {PathLaplacian, <<<<FOne, FromInt(2)>>>>} :
       AuditCall(k, "compute_harmony",
                 compute_harmony(DefaultHarmony, engine_of(k), laplacian))

\* verify_exact_beta_functions of 0.5 and of 2 ** 512
BetaThrough(k) ==
  /\ steps < MaxAuditCalls
  /\ k <= Len(holders)
  /\ holders[k].class = "SymplecticCancellation"
  /\ \E lambda_tilde \in {FDiv(FOne, FromInt(2)), [sgn |-> 0, man |-> <<1>>, exp |-> 512]} :
       AuditCall(k, "verify_exact_beta_functions",
                 verify_exact_beta_functions(engine_of(k), lambda_tilde))

WavefunctionThrough(k) ==
  /\ steps < MaxAuditCalls
  /\ k <= Len(holders)
  /\ holders[k].class = "CymaticResonanceNetwork"
  /\ AuditCall(k, "get_collective_wavefunction",
               get_collective_wavefunction(AuditNetwork, engine_of(k)))

NextAudit ==
  \/ \E class \in {"SymplecticAction", "SymplecticCancellation", "HarmonyFunctional",
                   "CymaticResonanceNetwork"} : NewEvaluator(class)
  \/ \E k \in 1..MaxEvaluators : KineticThrough(k)
  \/ \E k \in 1..MaxEvaluators : InteractionThrough(k)
  \/ \E k \in 1..MaxEvaluators : TotalThrough(k)
  \/ \E k \in 1..MaxEvaluators : EvaluateThrough(k)
  \/ \E k \in 1..MaxEvaluators : HarmonyThrough(k)
  \/ \E k \in 1..MaxEvaluators : BetaThrough(k)
  \/ \E k \in 1..MaxEvaluators : WavefunctionThrough(k)

SpecAudit == InitAudit /\ [][NextAudit]_vars

----------------------------------------------------------------------------
(* Properties of compute_qncd, checked under Spec.  q1 and q2 are the        *)
(* arguments of the call whose outcome is out.                               *)

\* 1e-5 and 1e-8: the default rtol and atol of np.isclose
Rtol == [sgn |-> 0, man |-> <<26865, 4550, 25302, 167>>, exp |-> -69]
Atol == [sgn |-> 0, man |-> <<17949, 25136, 29469, 85>>, exp |-> -78]

\* np.isclose(a, b, rtol, atol): |a - b| <= atol + rtol * |b|
isclose(a, b, rtol, atol) ==
  FLe(FAbs(FSub(a, b)), FAdd(atol, FMul(rtol, FAbs(b))))

\* the Euclidean dot product of the 4-vectors of two quaternions
EuclidDot(a, b) ==
  FAdd(FAdd(FAdd(FMul(a.w, b.w), FMul(a.x, b.x)), FMul(a.y, b.y)), FMul(a.z, b.z))

\* the value 1.0 - dot_product**2 before it is clipped, for nonzero a and b
Unclipped(a, b) ==
  FSub(FOne, Square(dot_product(normalize(a).ret.val, normalize(b).ret.val)))

QncdCalled == op = "compute_qncd"

C3_ExactlyZero ==
  QncdCalled /\ q1 # ZeroQuat /\ (q2 = q1 \/ q2 = Negated(q1))
    => out = Return(FZero)

\* C3 amended: for every nonzero q, compute_qncd(q, q) and compute_qncd(q, -q)
\* are the same value, which is not below 0 and is np.isclose to 0 (within
\* 1e-8, as test_antipodal_states asserts); rounding can leave it above 0.
C3_NearZero ==
  QncdCalled /\ q1 # ZeroQuat /\ (q2 = q1 \/ q2 = Negated(q1))
    => /\ out.ok
       /\ FLe(FZero, out.val)
       /\ isclose(out.val, FZero, Rtol, Atol)
       /\ out = compute_qncd(q1, q1).ret

\* an antipodal pair whose distance is not exactly 0
C3_Witness ==
  /\ QncdCalled
  /\ q1 # ZeroQuat /\ q2 = Negated(q1)
  /\ out.val # FZero

----------------------------------------------------------------------------
(* Properties of the Quaternion methods, checked under Spec.  q1 is the      *)
(* object the method op was called on, q2 its argument, out its outcome.     *)

I == QuatOf(0, 1, 0, 0)
J == QuatOf(0, 0, 1, 0)
K == QuatOf(0, 0, 0, 1)
Identity == QuatOf(1, 0, 0, 0)

\* C6: multiplication is the Hamilton product, which does not commute: for
\* the basis elements, i*j = k, j*i = -k and i*i = (-1, 0, 0, 0).
C6_BasisProducts ==
  op = "__mul__"
    => /\ (q1 = I /\ q2 = J => out = Return(K))
       /\ (q1 = J /\ q2 = I => out = Return(Negated(K)))
       /\ (q1 = I /\ q2 = I => out = Return(QuatOf(-1, 0, 0, 0)))

\* j*i has been computed and is -k, which is not i*j
C6_Witness ==
  /\ op = "__mul__" /\ q1 = J /\ q2 = I
  /\ out = Return(Negated(K))
  /\ out # __mul__(I, J).ret

InverseProduct == __mul__(q1, out.val).ret.val

\* C8 as stated: for every nonzero q, q * q.inverse() is the identity
\* quaternion (1, 0, 0, 0).
C8_ExactIdentity ==
  op = "inverse" /\ q1 # ZeroQuat => out.ok /\ InverseProduct = Identity

\* C8 amended: for every nonzero q, each component of q * q.inverse() is
\* np.isclose to the component of the identity quaternion (1, 0, 0, 0), as
\* test_norm_inverse asserts; rounding can leave it off the identity.
C8_NearIdentity ==
  op = "inverse" /\ q1 # ZeroQuat
    => /\ out.ok
       /\ isclose(InverseProduct.w, FOne, Rtol, Atol)
       /\ isclose(InverseProduct.x, FZero, Rtol, Atol)
       /\ isclose(InverseProduct.y, FZero, Rtol, Atol)
       /\ isclose(InverseProduct.z, FZero, Rtol, Atol)

\* an inverse whose product with q1 is close to the identity and is not it
C8_Witness ==
  /\ op = "inverse" /\ out.ok
  /\ InverseProduct # Identity
  /\ isclose(InverseProduct.w, FOne, Rtol, Atol)
  /\ isclose(InverseProduct.z, FZero, Rtol, Atol)

\* C9: no method of Quaternion changes a component of the object it is
\* called on or of its argument.
C9_OperandsUnchanged == [][q1' = q1 /\ q2' = q2]_vars

\* normalize has returned a quaternion that is not q1, and q1 is still one of
\* the operands the run started with
C9_Witness ==
  /\ op = "normalize" /\ out.ok
  /\ out.val # q1
  /\ q1 \in Quats

----------------------------------------------------------------------------
(* Properties of ResonantNode.update_phase, checked under SpecNode.          *)

\* C10 as stated: after update_phase(dt), the phase of the node is
\* (previous phase + frequency * dt) mod 2*pi and lies in [0, 2*pi), whatever
\* dt, the frequency and the previous phase.
C10_PhaseWrapped ==
  last.op = "update_phase"
    => /\ node.state.phase =
            FMod(FAdd(last.before, FMul(node.frequency, last.dt)), TwoPi)
       /\ FLe(FZero, node.state.phase)
       /\ FLt(node.state.phase, TwoPi)

\* C11: a call of update_phase leaves the node's SU(2) part, its frequency and
\* its id as they were; only the phase of the state is written.
C11_OnlyPhaseChanges ==
  [][/\ node'.state.su2 = node.state.su2
     /\ node'.frequency = node.frequency
     /\ node'.id = node.id]_vars

\* update_phase has moved the phase of a node whose SU(2) part is not the
\* default one
C11_Witness ==
  /\ last.op = "update_phase"
  /\ node.state.su2 = Generic
  /\ node.state.phase # last.before

\* C12: a network constructed with num_nodes = n holds n nodes of ids 0..n-1
\* in list order, of the frequencies it was constructed with, and an n x n
\* coupling matrix of zeros, after any calls of update_phase,
\* get_collective_wavefunction and check_spectral_stability.
C12_NetworkShape ==
  net # Absent =>
    /\ Len(net.nodes) = last.num_nodes
    /\ \A i \in 1..last.num_nodes :
         /\ net.nodes[i].id = i - 1
         /\ net.nodes[i].frequency = FAdd(FOne, draws[i])
    /\ net.coupling_matrix =
         [i \in 1..last.num_nodes |-> [j \in 1..last.num_nodes |-> FZero]]

\* a network of two nodes after update_phase on its second node and one of
\* the logging methods
C12_Witness ==
  /\ net # Absent
  /\ Len(net.nodes) = 2
  /\ net.nodes[2].state.phase # FZero
  /\ Len(engine.logs) = 1
  /\ steps = 2

\* ||q||^2 as the sum of the four squares
NormSquared(q) ==
  FAdd(FAdd(FAdd(FMul(q.w, q.w), FMul(q.x, q.x)), FMul(q.y, q.y)), FMul(q.z, q.z))

\* the scalar component of conjugate(a) * b
ScalarOfConjugateProduct(a, b) ==
  FSub(FSub(FSub(FMul(a.w, b.w), FMul(FNeg(a.x), b.x)), FMul(FNeg(a.y), b.y)),
       FMul(FNeg(a.z), b.z))

\* for i in order: ||f[i].su2||^2, then L[i][j] times the scalar component of
\* conjugate(f[i].su2) * f[j].su2 for every j in order, zero entries included
KineticSum(f, L) ==
  LET RECURSIVE sum(_, _, _)
      sum(i, j, total) ==
        IF i > Len(f) THEN total
        ELSE IF j = 0 THEN sum(i, 1, FAdd(total, NormSquared(f[i].su2)))
        ELSE IF j > Len(f) THEN sum(i + 1, 0, total)
        ELSE sum(i, j + 1,
                 FAdd(total, FMul(L[i][j],
                                  ScalarOfConjugateProduct(f[i].su2, f[j].su2))))
  IN sum(1, 0, FZero)

\* the same elements with every phase set to 0.0
WithoutPhases(f) == [i \in 1..Len(f) |-> GInfElement(f[i].su2, FZero)]

IdentityMatrix(n) == [i \in 1..n |-> [j \in 1..n |-> IF i = j THEN FOne ELSE FZero]]

ZeroMatrix(n) == [i \in 1..n |-> [j \in 1..n |-> FZero]]

\* every element of f has norm_sq() == 1.0
AllUnit(f) == \A i \in 1..Len(f) : NormSquared(f[i].su2) = FOne

\* C13: compute_kinetic_term returns the sum over i of ||su2_i||^2 plus the sum
\* over all i, j of L[i][j] times the scalar component of
\* conjugate(su2_i) * su2_j, zero entries of L included; the phases do not
\* enter; with L the identity on two unit quaternions the value is 4.0.
C13_KineticTerm ==
  op = "compute_kinetic_term" =>
    /\ out = Return(KineticSum(WithoutPhases(args[1]), args[2]))
    /\ (Len(args[1]) = 2 /\ AllUnit(args[1]) /\ args[2] = IdentityMatrix(2)
          => out = Return(FromInt(4)))

\* the kinetic term of two unit quaternions of different phases with L the
\* identity, which has zero entries
C13_Witness ==
  /\ op = "compute_kinetic_term"
  /\ Len(args[1]) = 2
  /\ AllUnit(args[1])
  /\ args[1][1].su2 # args[1][2].su2
  /\ args[1][1].phase # args[1][2].phase
  /\ args[2] = IdentityMatrix(2)
  /\ out = Return(FromInt(4))

\* the sum over the elements of f, in order, of (||su2||^2)^2
QuarticSum(f) ==
  LET RECURSIVE sum(_, _)
      sum(i, total) ==
        IF i > Len(f) THEN total
        ELSE sum(i + 1, FAdd(total, FMul(NormSquared(f[i].su2), NormSquared(f[i].su2))))
  IN sum(1, FZero)

\* C14: compute_interaction_term returns lambda times the sum over the field
\* of (||su2_i||^2)^2, whatever the phases and the adjacency matrix; with
\* lambda = 1 on four unit elements it is 4.0.
C14_InteractionTerm ==
  (op = "compute_interaction_term" /\ Len(args) = 2) =>
    /\ out = Return(FMul(action.lambda_coupling, QuarticSum(WithoutPhases(args[1]))))
    /\ (action.lambda_coupling = FOne /\ Len(args[1]) = 4 /\ AllUnit(args[1])
          => out = Return(FromInt(4)))

\* the interaction term of four unit elements of two phases with lambda = 1
\* and an adjacency matrix that is not zero
C14_Witness ==
  /\ op = "compute_interaction_term"
  /\ Len(args) = 2
  /\ action.lambda_coupling = FOne
  /\ Len(args[1]) = 4
  /\ AllUnit(args[1])
  /\ args[1][1].phase # args[1][2].phase
  /\ args[2] = IdentityMatrix(4)
  /\ out = Return(FromInt(4))

\* C15: compute_interaction_term called with the field alone returns the
\* interaction value and raises nothing.
C15_FieldAloneAccepted ==
  (op = "compute_interaction_term" /\ Len(args) = 1) =>
    out = Return(FMul(action.lambda_coupling, QuarticSum(args[1])))

KernelCalled == op = "evaluate_kernel"

\* 0 <= gamma
GammaNotNegative == ~FNegative(action.gamma_coupling)

PhaseFactor(g) ==
  exp_1j(FSub(FAdd(FAdd(g[1].phase, g[2].phase), g[3].phase), g[4].phase))

\* the four elements carry one quaternion, which is not zero
SameNonzeroQuaternion(g) ==
  /\ g[1].su2 # ZeroQuat
  /\ \A i \in 2..4 : g[i].su2 = g[1].su2

\* two of the four elements carry nonzero quaternions orthogonal as 4-vectors
HasOrthogonalPair(g) ==
  \E i, j \in 1..4 :
    /\ i < j
    /\ g[i].su2 # ZeroQuat
    /\ g[j].su2 # ZeroQuat
    /\ EuclidDot(g[i].su2, g[j].su2) = FZero

\* compute_qncd is exactly 0.0 for each of the six pairs
NoDistance(g) ==
  \A i, j \in 1..4 : i < j => compute_qncd(g[i].su2, g[j].su2).ret.val = FZero

\* np.isclose of two complex numbers: |a - b| <= atol + rtol * |b|
CloseComplex(a, b) ==
  FLe(np_abs(Complex(FSub(a.re, b.re), FSub(a.im, b.im))),
      FAdd(Atol, FMul(Rtol, np_abs(b))))

\* 1e-15
GammaFloor == [sgn |-> 0, man |-> <<11019, 7911, 1887, 72>>, exp |-> -101]

C19_KernelPure ==
  [][op' = "evaluate_kernel" =>
       /\ field' = field
       /\ \A i \in 1..4 : \E j \in 1..4 : args'[i] = field[j]
       /\ action' = action
       /\ engine' = engine
       /\ (KernelCalled /\ args' = args => out' = out)]_vars

\* evaluate_kernel called on the elements in reverse order, the log empty
C19_Witness ==
  /\ KernelCalled
  /\ args # field
  /\ out.val # Complex(FOne, FZero)
  /\ engine.logs = <<>>

\* C20: verify_cancellation with genus = 0 returns False for every sample
\* count, takes nothing from np.random and appends no record to the log.
C20_PlanarNeverCancels ==
  [][(op' = "verify_cancellation" /\ args'[1] = 0) =>
       /\ out' = Return(FALSE)
       /\ draws' = draws
       /\ engine' = engine]_vars

\* the planar case with a negative sample count, on a log that holds a record
C20_Witness ==
  /\ op = "verify_cancellation"
  /\ args[1] = 0
  /\ args[2] < 0
  /\ out = Return(FALSE)
  /\ Len(engine.logs) = 1
  /\ draws = <<>>

----------------------------------------------------------------------------
(* Properties of verify_cancellation with samples, checked under            *)
(* SpecCancel.  args is <<genus, num_samples>>, draws the phases followed   *)
(* by the signs.                                                            *)

\* the phase and the sign of the sample k of the call
SampledPhase(k) == draws[k]
SampledSign(k) == draws[args[2] + k]

\* the contribution sign_k * exp(i * phase_k) of the sample k
Contribution(k) ==
  LET z == exp_1j(SampledPhase(k))
  IN Complex(FMul(FromInt(SampledSign(k)), z.re), FMul(FromInt(SampledSign(k)), z.im))

\* the sum of the N contributions, as np.sum adds them
TotalAmplitude == np_sum_complex([k \in 1..args[2] |-> Contribution(k)])

\* the magnitude of the sum divided by N, and 2 / sqrt(N)
MeanAmplitude == FDiv(np_abs(TotalAmplitude), FromInt(args[2]))
TwoSigma == FDiv(FromInt(2), FSqrt(FromInt(args[2])))

\* verify_cancellation was called with genus > 0 and N >= 1 samples
SampledCall == op = "verify_cancellation" /\ args[1] > 0 /\ args[2] >= 1

\* C21: for genus > 0 and N >= 1 samples, whatever was drawn,
\* verify_cancellation returns True iff the magnitude of the sum of the N
\* contributions divided by N is strictly below 2/sqrt(N), the quantities
\* being the floats computed; at equality it returns False.
C21_CancelledIffBelowThreshold ==
  SampledCall => out = Return(FLt(MeanAmplitude, TwoSigma))

\* four aligned contributions: the mean amplitude equals the threshold 1.0
\* and the call returns False
C21_Witness ==
  /\ SampledCall
  /\ args[2] = 4
  /\ MeanAmplitude = TwoSigma
  /\ out = Return(FALSE)

----------------------------------------------------------------------------
(* Properties of compute_harmony, checked under SpecHarmony.  args is       *)
(* <<laplacian>>; the eigenvalues are written as floats where they are      *)
(* floats.                                                                  *)

\* compute_harmony was called on a square matrix
HarmonyCall ==
  /\ op = "compute_harmony"
  /\ \A i \in 1..Len(args[1]) : Len(args[1][i]) = Len(args[1])

\* L has no entry but 0 below, or none but 0 above, the diagonal
Triangular(L) ==
  \/ \A i \in 1..Len(L) : \A j \in 1..(i - 1) : L[i][j] = FZero
  \/ \A i \in 1..Len(L) : \A j \in (i + 1)..Len(L) : L[i][j] = FZero

\* the values an eigenvalue of a 2 x 2 matrix of the entries -1..2 can take
\* if it is an integer
IntegerRoots == {FromInt(k) : k \in (-3)..4}

\* the eigenvalues of L in ascending order, if they are floats: the diagonal
\* of a triangular L, and otherwise the two integers whose sum is the trace
\* and whose product is the determinant of a 2 x 2 matrix L
Spectra(L) ==
  IF Triangular(L) THEN {ascending([i \in 1..Len(L) |-> L[i][i]])}
  ELSE {w \in {<<x, y>> : x \in IntegerRoots, y \in IntegerRoots} :
          /\ FLe(w[1], w[2])
          /\ FAdd(w[1], w[2]) = FAdd(L[1][1], L[2][2])
          /\ FMul(w[1], w[2]) = FSub(FMul(L[1][1], L[2][2]), FMul(L[1][2], L[2][1]))}

\* every value of w is a zero mode, |x| <= 1e-10
AllZeroModes(w) == \A i \in 1..Len(w) : FLe(FAbs(w[i]), ZeroMode)

\* the record the call appended to the log
HarmonyRecord == engine.logs[Len(engine.logs)]

\* C22, as claimed: if every eigenvalue of the matrix is a zero mode,
\* compute_harmony returns +inf, whatever the coupling c_h.
C22_DegenerateIsPlusInfinity ==
  (HarmonyCall /\ \E w \in Spectra(args[1]) : AllZeroModes(w))
    => out = Return(Inf)

\* the value of tr - c_h * (-inf): +inf for c_h > 0, nan for c_h = 0 and
\* -inf for c_h < 0
DegenerateHarmony(c_h) ==
  IF c_h = FZero THEN NaN ELSE IF FNegative(c_h) THEN NegInf ELSE Inf

\* C22, amended: if every eigenvalue that eigvalsh computes from the lower
\* triangle of the matrix is a zero mode, compute_harmony takes the
\* log-pseudo-determinant to be -inf and returns +inf when c_h > 0, nan when
\* c_h = 0 and -inf when c_h < 0.
C22_DegenerateBySignOfCoupling ==
  (HarmonyCall /\ AllZeroModes(eigvalsh(args[1])))
    => /\ out = Return(DegenerateHarmony(functional.c_h))
       /\ HarmonyRecord.context["log_det"] = NegInf

\* the zero matrix np.zeros((2, 2)) with c_h = 0.0: the call returns nan
C22_Witness ==
  /\ HarmonyCall
  /\ args[1] = Diagonal(2, <<FZero, FZero>>)
  /\ AllZeroModes(eigvalsh(args[1]))
  /\ functional.c_h = FZero
  /\ out = Return(NaN)

\* the sum of ln|x| over the values x of w that are no zero modes
LogPseudoDeterminant(w) ==
  np_sum([k \in 1..Len(non_zero_eigs(w)) |-> np_log(FAbs(non_zero_eigs(w)[k]))])

\* the sum of the squared entries of L minus c_h times the sum of ln|x| over
\* the values x of w that are no zero modes
HarmonyOfSpectrum(c_h, L, w) == FSub(tr_l2(L), FMul(c_h, LogPseudoDeterminant(w)))

\* C23, as claimed: compute_harmony returns the sum of the squared entries
\* of L minus c_h times the sum of ln|lambda| over the eigenvalues lambda of
\* L with |lambda| > 1e-10, when there is such an eigenvalue.
C23_HarmonyOfEigenvalues ==
  HarmonyCall
    => \A w \in Spectra(args[1]) :
         ~AllZeroModes(w)
           => out = Return(HarmonyOfSpectrum(functional.c_h, args[1], w))

\* the matrix is symmetric
Symmetric(L) == \A i \in 1..Len(L) : \A j \in 1..Len(L) : L[i][j] = L[j][i]

\* the statement of C23 for the symmetric matrices only
C23_HarmonyOfSymmetric == (HarmonyCall /\ Symmetric(args[1])) => C23_HarmonyOfEigenvalues

\* the two examples: np.eye(2) with c_h = 1.0 gives 2.0, and
\* [[1, -1], [-1, 1]] gives 4.0 - c_h * ln 2
C23_Examples ==
  HarmonyCall
    => /\ args[1] = Diagonal(2, <<FOne, FOne>>) => out = Return(FromInt(2))
       /\ args[1] = <<<<FOne, FromInt(-1)>>, <<FromInt(-1), FOne>>>>
            => out = Return(FSub(FromInt(4), FMul(functional.c_h, np_log(FromInt(2)))))

----------------------------------------------------------------------------
(* Properties of log_theoretical_step, checked under SpecLog.  args is      *)
(* <<action, manuscript_ref, equation_ref, details>>, the last one a        *)
(* sequence that is empty if the call gives no details.                     *)

\* the message and the context of the call whose arguments are a
MessageOf(a) == <<"Computing ", a[1], " per ", a[2], ", ", a[3]>>
ContextOf(a) == IF a[4] = <<>> THEN [key \in {} |-> "None"] ELSE a[4][1]

\* the log after is the log before followed by exactly one record
OneMore(before, after) ==
  /\ Len(after) = Len(before) + 1
  /\ \A k \in 1..Len(before) : after[k] = before[k]

\* C24: a call of log_theoretical_step on an engine with verbosity > 0
\* appends exactly one record at the end of the log, whose message is
\* 'Computing {action} per {manuscript_ref}, {equation_ref}' and whose
\* context equals details, the empty mapping if no details are given; the
\* earlier records are unchanged.  With verbosity <= 0 the log is unchanged.
\* The call returns None and never changes the verbosity.
C24_OneRecordPerCall ==
  [][op' = "log_theoretical_step"
       => /\ out' = Return("None")
          /\ engine'.verbosity = engine.verbosity
          /\ IF engine.verbosity > 0
               THEN /\ OneMore(engine.logs, engine'.logs)
                    /\ engine'.logs[Len(engine'.logs)].level = "INFO"
                    /\ engine'.logs[Len(engine'.logs)].message = MessageOf(args')
                    /\ engine'.logs[Len(engine'.logs)].context = ContextOf(args')
               ELSE engine'.logs = engine.logs]_vars

\* a second call, without details, on an engine of verbosity 2: the log holds
\* two records, the last one with an empty context
C24_Witness ==
  /\ op = "log_theoretical_step"
  /\ steps = 2
  /\ args[4] = <<>>
  /\ engine.verbosity = 2
  /\ Len(engine.logs) = 2
  /\ DOMAIN engine.logs[2].context = {}
  /\ engine.logs[2].message = <<"Computing ", "TestAction", " per ", "Doc1", ", ", "Eq1">>

----------------------------------------------------------------------------
(* Properties of concurrent calls of log_theoretical_step, checked under    *)
(* SpecThreads.                                                             *)

\* every thread has called and its call has returned
AllReturned == \A t \in 1..MaxThreads : threads[t].pc = "done"

\* the record of the call of thread t, intact
RecordOf(t) ==
  [level |-> "INFO",
   message |-> <<"Computing ", threads[t].act, " per ", "IRH v22.2", ", ", "Sec. 4.1">>,
   context |-> IF threads[t].given = <<>> THEN [key \in {} |-> "None"]
               ELSE threads[t].given[1]]

\* the last MaxThreads records of the log are the intact records of the
\* calls, one for each call, in some order
OneIntactRecordPerCall ==
  /\ Len(engine.logs) >= MaxThreads
  /\ \E place \in [1..MaxThreads -> 1..MaxThreads] :
       /\ \A t, u \in 1..MaxThreads : place[t] = place[u] => t = u
       /\ \A t \in 1..MaxThreads :
            engine.logs[Len(engine.logs) - MaxThreads + place[t]] = RecordOf(t)

----------------------------------------------------------------------------
(* Properties of verify_exact_beta_functions, checked under SpecCancel.     *)
(* args is <<lambda_tilde>>.                                                *)

\* the least float whose square is out of range, 2 ** 512
SquareOverflows == [sgn |-> 0, man |-> <<1>>, exp |-> 512]

\* the message names the action "Verify Exact Beta Function"
NamesBetaFunction(message) == \E k \in 1..Len(message) : message[k] = "Verify Exact Beta Function"

\* C26, as claimed: verify_exact_beta_functions returns True for every
\* lambda_tilde, and the last record of the log is its record, whose message
\* contains 'Verify Exact Beta Function' and whose context has the key
\* 'beta_lambda'.
C26_AlwaysTrueAndLogged ==
  op = "verify_exact_beta_functions"
    => /\ out = Return(TRUE)
       /\ Len(engine.logs) > 0
       /\ NamesBetaFunction(engine.logs[Len(engine.logs)].message)
       /\ "beta_lambda" \in DOMAIN engine.logs[Len(engine.logs)].context

\* C26, amended: for every float lambda_tilde with |lambda_tilde| < 2 ** 512
\* verify_exact_beta_functions returns True and appends to the engine one
\* record whose message contains 'Verify Exact Beta Function' and whose
\* context holds lambda_tilde under 'lambda' and a float under
\* 'beta_lambda'; for a float of a larger magnitude lambda_tilde**2 raises
\* OverflowError and the log is unchanged.
C26_TrueAndLoggedUnlessOverflow ==
  [][op' = "verify_exact_beta_functions"
       => IF FLt(FAbs(args'[1]), SquareOverflows)
            THEN /\ out' = Return(TRUE)
                 /\ engine'.verbosity = engine.verbosity
                 /\ Len(engine'.logs) = Len(engine.logs) + 1
                 /\ \A k \in 1..Len(engine.logs) : engine'.logs[k] = engine.logs[k]
                 /\ NamesBetaFunction(engine'.logs[Len(engine'.logs)].message)
                 /\ DOMAIN engine'.logs[Len(engine'.logs)].context = {"lambda", "beta_lambda"}
                 /\ engine'.logs[Len(engine'.logs)].context["lambda"] = args'[1]
                 /\ engine'.logs[Len(engine'.logs)].context["beta_lambda"].exp < 1024
            ELSE /\ out' = Raise("OverflowError")
                 /\ engine' = engine]_vars

\* the call with 2 ** 512 raised OverflowError and the log holds no record
\* of it
C26_Witness ==
  /\ op = "verify_exact_beta_functions"
  /\ args[1] = SquareOverflows
  /\ out = Raise("OverflowError")
  /\ \A k \in 1..Len(engine.logs) : ~NamesBetaFunction(engine.logs[k].message)

----------------------------------------------------------------------------
(* Properties of the nodes' state objects, checked under SpecOwners.        *)

\* no two nodes refer to the same state object
DistinctStates ==
  \A i, j \in 1..Len(holders) : holders[i].state = holders[j].state => i = j

\* C27: every node of a CymaticResonanceNetwork, and every ResonantNode
\* built with the default state, has a state object no other node has; a
\* step changes the state of a node only if it is the assignment of an
\* update_phase on that very node, which keeps its quaternion, and the
\* nodes, their ids, frequencies and references stay as they were built,
\* however the updates of the nodes interleave.
C27_NodesOwnTheirStates ==
  /\ []DistinctStates
  /\ [][\A j \in 1..Len(holders) :
          /\ holders'[j] = holders[j]
          /\ heap'[holders[j].state] # heap[holders[j].state]
               => /\ op' = "update_phase"
                  /\ args'[1] = j
                  /\ threads[j].pc = "store"
                  /\ heap'[holders[j].state].su2 = heap[holders[j].state].su2]_vars

\* node 2 was updated while an update of node 1 was under way: the phase of
\* node 2 changed and that of node 1 is still 0.0
C27_Witness ==
  /\ Len(holders) = 2
  /\ op = "update_phase"
  /\ args[1] = 2
  /\ threads[1].pc = "store"
  /\ heap[holders[2].state].phase # FZero
  /\ heap[holders[1].state] = DefaultState

----------------------------------------------------------------------------
(* Properties of update_phase in pieces, checked under SpecPieces.          *)

\* the node has been stepped in pieces and its twin at once, by the sum
BothStepped == last # NoCall

\* C28, as claimed: update_phase(dt1) followed by update_phase(dt2) leaves
\* the same phase as a single update_phase(dt1 + dt2) from the same state.
C28_SamePhase == BothStepped => node.state.phase = holders[1].state.phase

\* 1e-12
PhaseTolerance == FDiv(FOne, FMul(FromInt(1000000), FromInt(1000000)))

\* x and y differ by at most 1e-12
Near(x, y) == FLe(FAbs(FSub(x, y)), PhaseTolerance)

\* C28, amended: the phase after the pieces and the phase after the single
\* step are both in [0, 2*pi] and agree modulo 2*pi up to the rounding of
\* the float operations: they, or one of them and the other plus 2*pi,
\* differ by at most 1e-12 (for phases, frequencies and steps of magnitude
\* at most 7); they need not be the same float.
C28_SamePhaseUpToRounding ==
  BothStepped
    => /\ FLe(FZero, node.state.phase) /\ FLe(node.state.phase, TwoPi)
       /\ FLe(FZero, holders[1].state.phase) /\ FLe(holders[1].state.phase, TwoPi)
       /\ \/ Near(node.state.phase, holders[1].state.phase)
          \/ Near(node.state.phase, FAdd(holders[1].state.phase, TwoPi))
          \/ Near(FAdd(node.state.phase, TwoPi), holders[1].state.phase)

\* from phase 0.0 with frequency 1.0 the pieces 7.0 and 0.1 leave another
\* float than the single step 7.0 + 0.1
C28_Witness ==
  /\ BothStepped
  /\ args = <<FromInt(7), Dt01>>
  /\ last.before = FZero
  /\ node.frequency = FOne
  /\ node.state.phase # holders[1].state.phase
  /\ Near(node.state.phase, holders[1].state.phase)

----------------------------------------------------------------------------
(* Properties of the audit log, checked under SpecAudit.  args is <<k>>,    *)
(* the place in holders of the evaluator the method was called on.          *)

\* the log an evaluator writes to
LogOf(evaluator) == heap[evaluator.transparency].logs

\* the log it writes to, after the step
LogAfter(evaluator) == heap'[evaluator.transparency].logs

\* before is a prefix of after
IsPrefix(before, after) ==
  /\ Len(before) <= Len(after)
  /\ \A n \in 1..Len(before) : after[n] = before[n]

\* the names of the actions of the records of after that follow before
NamesAdded(before, after) ==
  [n \in 1..(Len(after) - Len(before)) |-> after[Len(before) + n].message[2]]

\* the names of the records a method appends when it returns
NamesOf(method) ==
  IF method \in {"compute_total_action", "evaluate"}
    THEN <<"Compute Kinetic Action", "Compute Interaction Action">>
  ELSE IF method = "compute_kinetic_term" THEN <<"Compute Kinetic Action">>
  ELSE IF method = "compute_interaction_term" THEN <<"Compute Interaction Action">>
  ELSE <<"Compute Harmony Functional">>

\* C29: a call of compute_total_action or of DissonanceFunctional.evaluate
\* that returns appends exactly two records to the log of its evaluator,
\* 'Compute Kinetic Action' and then 'Compute Interaction Action';
\* compute_kinetic_term, compute_interaction_term and compute_harmony append
\* exactly one each, of their own name; and whatever the step, a
\* construction or a call that returns or raises, the log before it is a
\* prefix of the log after it.
C29_AuditRecords ==
  [][/\ \A k \in 1..Len(holders) : IsPrefix(LogOf(holders[k]), LogAfter(holders[k]))
     /\ (/\ steps' # steps
         /\ out'.ok
         /\ op' \in {"compute_total_action", "evaluate", "compute_kinetic_term",
                     "compute_interaction_term", "compute_harmony"})
          => NamesAdded(LogOf(holders[args'[1]]), LogAfter(holders[args'[1]])) = NamesOf(op')]_vars

\* evaluate returned after a compute_harmony: the log holds the record of
\* the harmony and then the two of the action
C29_Witness ==
  /\ op = "evaluate"
  /\ out.ok
  /\ Len(LogOf(holders[args[1]])) = 3
  /\ NamesAdded(<<>>, LogOf(holders[args[1]]))
       = <<"Compute Harmony Functional", "Compute Kinetic Action", "Compute Interaction Action">>

\* C30: get_transparency_engine() returns the module's one engine on every
\* call and builds none: every evaluator, of whatever class and whenever it
\* is built, refers to that engine, so that all of them write to the same
\* log and the records appended through one are those seen through every
\* other.
C30_OneSharedEngine ==
  /\ Len(heap) = 1
  /\ \A k \in 1..Len(holders) :
       /\ holders[k].transparency = 1
       /\ \A j \in 1..Len(holders) : LogOf(holders[j]) = LogOf(holders[k])

\* a HarmonyFunctional built after a SymplecticAction had logged a kinetic
\* term: it sees that record, and the action sees the record of the harmony
C30_Witness ==
  /\ Len(holders) = 2
  /\ holders[1].class = "SymplecticAction"
  /\ holders[2].class = "HarmonyFunctional"
  /\ op = "compute_harmony"
  /\ args = <<2>>
  /\ NamesAdded(<<>>, LogOf(holders[1]))
       = <<"Compute Kinetic Action", "Compute Harmony Functional">>
  /\ LogOf(holders[2]) = LogOf(holders[1])

====
